---- MODULE Spec2Model ----
(***************************************************************************)
(* State-machine model of the Vagrantfile generator backend                *)
(* (marekruzicka/vagrantfile-generator, backend/src).                      *)
(*                                                                         *)
(* Representation choices                                                  *)
(*  - An Optional value is None or Some(v); an Optional string that is     *)
(*    only compared with strings is the string Null when it is None.       *)
(*  - A request body is a record whose DOMAIN is the set of keys the       *)
(*    client sent: an omitted key and a key sent as null are different     *)
(*    inputs, as they are for pydantic.                                    *)
(*  - A text whose characters matter (names, script sources) is a sequence *)
(*    of one-character strings.                                            *)
(*  - A dotted IPv4 string is the sequence of its decimal parts, so        *)
(*    "10.0.0.5" is <<10, 0, 0, 5>>; a sequence of another length or with  *)
(*    a part above 255 is a string ipaddress.IPv4Address refuses.          *)
(*  - pydantic v2 runs a field validator on a value the caller supplied    *)
(*    and never on a default (validate_default is not set anywhere), and   *)
(*    it registers the decorated validators it finds in the class          *)
(*    namespace once the class body has run.                               *)
(***************************************************************************)
EXTENDS Integers, Sequences, FiniteSets, TLC

VARIABLES
    projects,           \* the data/projects directory: project id -> stored project, or NoProject
    validation_config,  \* network_interface._validation_config (module global)
    response,           \* outcome of the last request / call
    call,               \* the last direct call of an entity constructor: its arguments
    pc                  \* position of each request thread in the threaded host

vars == <<projects, validation_config, response, call, pc>>

Null == "null"
NoProject == "no_project"
NoResponse == [op |-> "none"]
NoCall == [fn |-> "none"]

Get(d, k, default) == IF k \in DOMAIN d THEN d[k] ELSE default

Range(s) == {s[i] : i \in DOMAIN s}

\* Optional[T]: None, or the one-element sequence holding the value.
None == <<>>
Some(v) == <<v>>
Val(o) == o[1]

Whitespace == {" ", "\n", "\t"}

RECURSIVE lstrip(_)
lstrip(s) == IF s # <<>> /\ Head(s) \in Whitespace THEN lstrip(Tail(s)) ELSE s

RECURSIVE rstrip(_)
rstrip(s) ==
    IF s # <<>> /\ s[Len(s)] \in Whitespace THEN rstrip(SubSeq(s, 1, Len(s) - 1)) ELSE s

\* str.strip()
strip(s) == rstrip(lstrip(s))

Letters ==
    {"a", "b", "c", "d", "e", "f", "g", "h", "i", "j", "k", "l", "m",
     "n", "o", "p", "q", "r", "s", "t", "u", "v", "w", "x", "y", "z",
     "A", "B", "C", "D", "E", "F", "G", "H", "I", "J", "K", "L", "M",
     "N", "O", "P", "Q", "R", "S", "T", "U", "V", "W", "X", "Y", "Z"}
Digits == {"0", "1", "2", "3", "4", "5", "6", "7", "8", "9"}

\* re.match(r'^[a-zA-Z0-9_-]+$', v)
IsWord(v) == v # <<>> /\ \A i \in DOMAIN v : v[i] \in Letters \cup Digits \cup {"_", "-"}

(***************************************************************************)
(* models/network_interface.py                                             *)
(***************************************************************************)
NetworkTypes == {"private_network", "public_network", "forwarded_port"}
IPAssignments == {"static", "dhcp"}
Protocols == {"tcp", "udp"}

MinPort == 1
MaxPort == 65535

IsIPv4(v) == Len(v) = 4 /\ \A i \in 1..4 : v[i] \in 0..255

is_loopback(ip) == ip[1] = 127
is_multicast(ip) == ip[1] \in 224..239
is_reserved(ip) == ip[1] \in 240..255

\* The ranges with 172.31.x.x left out of the third
is_private_mutant(ip_parts) ==
    \/ ip_parts[1] = 192 /\ ip_parts[2] = 168
    \/ ip_parts[1] = 10
    \/ ip_parts[1] = 172 /\ 16 <= ip_parts[2] /\ ip_parts[2] < 31

\* lines 119-130: the three private ranges, decided on the dotted parts
is_private(ip_parts) ==
    \/ ip_parts[1] = 192 /\ ip_parts[2] = 168
    \/ ip_parts[1] = 10
    \/ ip_parts[1] = 172 /\ 16 <= ip_parts[2] /\ ip_parts[2] <= 31

\* get_validation_config()/set_validation_config(): the global dictionary
DefaultValidationConfig == [allow_public_ips_in_private_networks |-> FALSE]
set_validation_config(config, update) ==
    [k \in DOMAIN config \cup DOMAIN update |->
        IF k \in DOMAIN update THEN update[k] ELSE config[k]]

\* The field validator of ip_address. `data` is info.data (the fields validated
\* before ip_address: type and ip_assignment), `config` what
\* get_validation_config() returns at the moment of the call. "ok" or the error.
validate_ip_address(v, data, config) ==
    IF v = None
    THEN IF Get(data, "ip_assignment", Null) = "static"
         THEN "IP address is required for static IP assignment"
         ELSE "ok"
    ELSE IF ~IsIPv4(Val(v)) THEN "Invalid IPv4 address"
    ELSE IF is_loopback(Val(v)) THEN "Loopback addresses not allowed"
    ELSE IF is_multicast(Val(v)) THEN "Multicast addresses not allowed"
    ELSE IF is_reserved(Val(v)) THEN "Reserved IP addresses not allowed"
    ELSE IF Val(v)[4] = 1 THEN "IP addresses ending with .1 are not allowed"
    ELSE IF /\ Get(data, "type", Null) = "private_network"
            /\ ~Get(config, "allow_public_ips_in_private_networks", FALSE)
            /\ ~is_private(Val(v))
         THEN "Private network IP address should be in a private network range"
    ELSE "ok"

\* Field(ge=1, le=65535) and validate_host_port / validate_guest_port
validate_port(v) ==
    IF v = None THEN "ok"
    ELSE IF Val(v) \in MinPort..MaxPort THEN "ok"
    ELSE "Port number must be between 1 and 65535"

NetworkInterfaceFields ==
    {"id", "type", "ip_assignment", "ip_address", "netmask", "bridge",
     "host_port", "guest_port", "protocol"}

\* A netmask text, as read: four dot-separated parts, or "/" followed by the
\* integer int() makes of the rest (None when int() raises "invalid literal")
Dotted(parts) == [form |-> "dotted", parts |-> parts]
Cidr(suffix) == [form |-> "cidr", suffix |-> suffix]

MaxCidr == 32

\* validate_netmask: "ok" or the error
validate_netmask(v) ==
    IF v.form = "cidr"
    THEN IF v.suffix = None THEN "Invalid CIDR notation format"
         ELSE IF ~(0 <= Val(v.suffix) /\ Val(v.suffix) <= MaxCidr)
         THEN "CIDR notation must be between /0 and /32"
         ELSE "ok"
    ELSE IF ~IsIPv4(v.parts) THEN "Invalid netmask format"
    ELSE "ok"

\* validate_bridge: None, or Some(text); "ok" or the error
validate_bridge(v) ==
    IF v = None THEN "ok"
    ELSE IF strip(Val(v)) = <<>> THEN "Bridge interface name cannot be empty"
    ELSE IF ~IsWord(Val(v)) THEN "Bridge interface name contains invalid characters"
    ELSE "ok"

NetworkInterfaceDefaults ==
    [id |-> Null, ip_assignment |-> "dhcp", ip_address |-> None,
     netmask |-> Dotted(<<255, 255, 255, 0>>), bridge |-> None, host_port |-> None,
     guest_port |-> None, protocol |-> "tcp"]

\* The errors pydantic collects for NetworkInterface(**data): one entry per field
\* that fails. A validator runs only for a key present in data.
NetworkInterfaceErrors(data, config) ==
    LET typeOk == "type" \in DOMAIN data /\ data.type \in NetworkTypes
        asgOk == "ip_assignment" \notin DOMAIN data \/ data.ip_assignment \in IPAssignments
        info == [type |-> IF typeOk THEN data.type ELSE Null,
                 ip_assignment |-> IF ~asgOk THEN Null
                                   ELSE Get(data, "ip_assignment",
                                            NetworkInterfaceDefaults.ip_assignment)]
        ipRes == IF "ip_address" \in DOMAIN data
                 THEN validate_ip_address(data.ip_address, info, config)
                 ELSE "ok"
        hpRes == IF "host_port" \in DOMAIN data THEN validate_port(data.host_port) ELSE "ok"
        gpRes == IF "guest_port" \in DOMAIN data THEN validate_port(data.guest_port) ELSE "ok"
        protoOk == "protocol" \notin DOMAIN data \/ data.protocol \in Protocols
        nmRes == IF "netmask" \in DOMAIN data THEN validate_netmask(data.netmask) ELSE "ok"
        brRes == IF "bridge" \in DOMAIN data THEN validate_bridge(data.bridge) ELSE "ok"
    IN  (IF typeOk THEN {} ELSE {"type: invalid or missing"})
        \cup (IF asgOk THEN {} ELSE {"ip_assignment: invalid"})
        \cup (IF protoOk THEN {} ELSE {"protocol: invalid"})
        \cup ({ipRes, hpRes, gpRes, nmRes, brRes} \ {"ok"})

\* NetworkInterface.__init__: the id is generated when absent or None, then the
\* fields are validated; the value holds every field, defaults filled in.
NetworkInterfaceInit(data, fresh_id, config) ==
    LET withId == [k \in DOMAIN data \cup {"id"} |->
                      IF k = "id" /\ Get(data, "id", Null) = Null THEN fresh_id ELSE data[k]]
        errs == NetworkInterfaceErrors(withId, config)
    IN  [ok |-> errs = {},
         errors |-> errs,
         value |-> [k \in NetworkInterfaceFields |->
                       IF k \in DOMAIN withId THEN withId[k] ELSE NetworkInterfaceDefaults[k]]]

(***************************************************************************)
(* models/provisioner.py                                                   *)
(***************************************************************************)
ProvisionerTypes == {"shell", "ansible", "puppet", "chef"}

\* validate_script_path and validate_inline have the same effect on the value:
\* None stays None, the text is stripped, and a text that strips to nothing is None.
validate_script_path(v) ==
    IF v = None THEN None
    ELSE IF strip(Val(v)) = <<>> THEN None
    ELSE Some(strip(Val(v)))

validate_inline(v) ==
    IF v = None THEN None
    ELSE IF strip(Val(v)) = <<>> THEN None
    ELSE Some(strip(Val(v)))

\* The def statements of the body of class Provisioner, in source order, with the
\* decorator each carries. A def statement binds its name in the class namespace.
ProvisionerClassBody ==
    << [name |-> "validate_script_path", decorator |-> "field_validator"],
       [name |-> "validate_inline", decorator |-> "field_validator"],
       [name |-> "validate_provisioner", decorator |-> "model_validator"],
       [name |-> "get_vagrant_config", decorator |-> "none"],
       [name |-> "validate_provisioner", decorator |-> "none"] >>

\* The namespace the class statement hands to the metaclass: every name is bound
\* to what its last def statement made.
ClassNamespace(body) ==
    [n \in {body[i].name : i \in DOMAIN body} |->
        LET last == CHOOSE i \in DOMAIN body :
                        /\ body[i].name = n
                        /\ \A j \in DOMAIN body : body[j].name = n => j <= i
        IN  body[last].decorator]

\* pydantic collects the validators from the namespace: a model validator runs at
\* construction iff some name is still bound to a model_validator object.
HasModelValidator(body) ==
    \E n \in DOMAIN ClassNamespace(body) : ClassNamespace(body)[n] = "model_validator"

\* Lines 82-90, the body of the decorated validate_provisioner: "ok" or the error.
validate_provisioner_after(self) ==
    IF self.type = "shell"
    THEN IF self.script_path = None /\ self.inline = None
         THEN "Shell provisioner requires either script_path or inline content"
         ELSE IF self.script_path # None /\ self.inline # None
         THEN "Shell provisioner cannot have both script_path and inline content"
         ELSE "ok"
    ELSE "ok"

\* Lines 134-157, the plain method validate_provisioner: (errors, warnings). The
\* warnings about the script file depend on the host file system and are left out.
validate_provisioner(self) ==
    [errors |-> IF self.type = "shell" /\ self.script_path = None /\ self.inline = None
                THEN <<"Shell provisioner requires either script_path or inline content">>
                ELSE <<>>,
     warnings |-> <<>>]

\* Provisioner(**data)
ProvisionerInit(data) ==
    LET typeOk == "type" \in DOMAIN data /\ data.type \in ProvisionerTypes
        self == [type |-> IF typeOk THEN data.type ELSE Null,
                 script_path |-> IF "script_path" \in DOMAIN data
                                 THEN validate_script_path(data.script_path) ELSE None,
                 inline |-> IF "inline" \in DOMAIN data
                            THEN validate_inline(data.inline) ELSE None,
                 args |-> Get(data, "args", <<>>),
                 privileged |-> Get(data, "privileged", TRUE),
                 config |-> Get(data, "config", <<>>)]
        after == IF typeOk /\ HasModelValidator(ProvisionerClassBody)
                 THEN validate_provisioner_after(self) ELSE "ok"
        errs == (IF typeOk THEN {} ELSE {"type: invalid or missing"}) \cup ({after} \ {"ok"})
    IN  [ok |-> errs = {}, errors |-> errs, value |-> self]

(***************************************************************************)
(* models/plugin_configuration.py                                          *)
(***************************************************************************)
PluginScopes == {"global", "vm"}

\* PluginConfiguration.validate_name: "ok" or the error; the stored name is the
\* stripped text
validate_plugin_name(v) ==
    IF strip(v) = <<>> THEN "Plugin name cannot be empty"
    ELSE IF ~IsWord(strip(v))
         THEN "Plugin name can only contain letters, numbers, underscores, and hyphens"
    ELSE "ok"

\* PluginConfiguration(**data): name is required and has min_length 1; config
\* is a sequence of <<key, value>> pairs in insertion order
PluginConfigurationInit(data) ==
    [ok |-> /\ "name" \in DOMAIN data
            /\ Len(data.name) >= 1
            /\ validate_plugin_name(data.name) = "ok"
            /\ Get(data, "scope", "vm") \in PluginScopes,
     value |-> [name |-> strip(Get(data, "name", <<>>)),
                config |-> Get(data, "config", <<>>),
                scope |-> Get(data, "scope", "vm")]]

(***************************************************************************)
(* models/synced_folder.py: the constructor                                *)
(***************************************************************************)
\* bool(value) of an Optional[str]
Truthy(opt) == opt # None /\ Val(opt) # <<>>

\* sub in s, for texts
Contains(s, sub) ==
    \E i \in 1..(Len(s) - Len(sub) + 1) : SubSeq(s, i, i + Len(sub) - 1) = sub

\* SyncedFolder.validate_host_path: "ok" or the error
validate_host_path(v) == IF strip(v) = <<>> THEN "Host path cannot be empty" ELSE "ok"

\* SyncedFolder.validate_guest_path: "ok" or the error
validate_guest_path(v) ==
    IF strip(v) = <<>> THEN "Guest path cannot be empty"
    ELSE IF Head(strip(v)) # "/" THEN "Guest path must be absolute (start with /)"
    ELSE IF Contains(strip(v), <<".", ".">>) THEN "Guest path cannot contain '..' references"
    ELSE "ok"

\* SyncedFolder(**data): both paths are required and stored stripped; options
\* is a sequence of <<key, value>> pairs in insertion order
SyncedFolderInit(data) ==
    [ok |-> /\ "host_path" \in DOMAIN data /\ validate_host_path(data.host_path) = "ok"
            /\ "guest_path" \in DOMAIN data /\ validate_guest_path(data.guest_path) = "ok",
     value |-> [host_path |-> strip(Get(data, "host_path", <<>>)),
                guest_path |-> strip(Get(data, "guest_path", <<>>)),
                disabled |-> Get(data, "disabled", FALSE),
                options |-> Get(data, "options", <<>>)]]

(***************************************************************************)
(* models/virtual_machine.py                                               *)
(***************************************************************************)
MaxVmNameLen == 50
MinMemory == 512
MaxMemory == 32768
MinCpus == 1
MaxCpus == 16
DefaultMemory == 1024
DefaultCpus == 1

\* Field(min_length=1, max_length=50) and validate_vm_name
validate_vm_name(v) ==
    IF Len(v) < 1 \/ Len(v) > MaxVmNameLen THEN "name: length"
    ELSE IF ~IsWord(v)
         THEN "VM name can only contain letters, numbers, underscores, and hyphens"
    ELSE IF v[1] \notin Letters THEN "VM name must start with a letter"
    ELSE "ok"

\* Field(min_length=1) and validate_box_name
validate_box_name(v) ==
    IF Len(v) < 1 \/ strip(v) = <<>> THEN "Box name cannot be empty" ELSE "ok"

\* validate_hostname: "ok" or the error (max_length=50 on the field)
validate_hostname(v) ==
    IF v = None THEN "ok"
    ELSE IF Len(Val(v)) > MaxVmNameLen THEN "hostname: length"
    ELSE IF strip(Val(v)) = <<>> THEN "ok"
    ELSE IF \A i \in DOMAIN strip(Val(v)) :
                strip(Val(v))[i] \in Letters \cup Digits \cup {".", "-"}
         THEN "ok"
    ELSE "Hostname can only contain letters, numbers, dots, and hyphens"

hostname_value(v) ==
    IF v = None THEN None
    ELSE IF strip(Val(v)) = <<>> THEN None
    ELSE Some(strip(Val(v)))

\* The k-th identifier of the pool that is not in `used`: what uuid4() returns
\* for the k-th interface a request constructs.
IdPool == <<"i1", "i2", "i3", "i4", "i5", "i6", "i7", "i8">>
RECURSIVE FreshFrom(_, _, _)
FreshFrom(i, used, k) ==
    IF i > Len(IdPool) THEN "i0"
    ELSE IF IdPool[i] \in used THEN FreshFrom(i + 1, used, k)
    ELSE IF k = 1 THEN IdPool[i]
    ELSE FreshFrom(i + 1, used, k - 1)
FreshId(used, k) == FreshFrom(1, used, k)

\* VirtualMachineCreate(**data) and VirtualMachine(**data): the field constraints,
\* the three validators, NetworkInterface(**d) for every entry of
\* network_interfaces and SyncedFolder(**d) for every entry of synced_folders.
\* `used` are the interface ids in use.
VirtualMachineInit(data, used, config) ==
    LET nameRes == IF "name" \in DOMAIN data THEN validate_vm_name(data.name)
                   ELSE "name: missing"
        boxRes == IF "box" \in DOMAIN data THEN validate_box_name(data.box)
                  ELSE "box: missing"
        hostRes == IF "hostname" \in DOMAIN data THEN validate_hostname(data.hostname)
                   ELSE "ok"
        memRes == IF "memory" \in DOMAIN data /\ data.memory \notin MinMemory..MaxMemory
                  THEN "memory: out of range" ELSE "ok"
        cpuRes == IF "cpus" \in DOMAIN data /\ data.cpus \notin MinCpus..MaxCpus
                  THEN "cpus: out of range" ELSE "ok"
        nis == Get(data, "network_interfaces", <<>>)
        built == [i \in DOMAIN nis |-> NetworkInterfaceInit(nis[i], FreshId(used, i), config)]
        niErrs == UNION {built[i].errors : i \in DOMAIN nis}
        sfs == Get(data, "synced_folders", <<>>)
        folders == [i \in DOMAIN sfs |-> SyncedFolderInit(sfs[i])]
        sfRes == IF \A i \in DOMAIN sfs : folders[i].ok THEN "ok"
                 ELSE "synced_folders: invalid"
        errs == ({nameRes, boxRes, hostRes, memRes, cpuRes, sfRes} \ {"ok"}) \cup niErrs
    IN  [ok |-> errs = {},
         errors |-> errs,
         value |-> [name |-> Get(data, "name", <<>>),
                    box |-> IF "box" \in DOMAIN data THEN strip(data.box) ELSE <<>>,
                    hostname |-> IF "hostname" \in DOMAIN data
                                 THEN hostname_value(data.hostname) ELSE None,
                    memory |-> Get(data, "memory", DefaultMemory),
                    cpus |-> Get(data, "cpus", DefaultCpus),
                    network_interfaces |-> [i \in DOMAIN nis |-> built[i].value],
                    synced_folders |-> [i \in DOMAIN sfs |-> folders[i].value],
                    provisioners |-> Get(data, "provisioners", <<>>)]]

\* VirtualMachine.add_synced_folder: "ok" or the error
add_synced_folder(vm, folder) ==
    IF \E i \in DOMAIN vm.synced_folders : vm.synced_folders[i].guest_path = folder.guest_path
    THEN "Guest path already mapped in this VM"
    ELSE "ok"

\* VirtualMachine.add_network_interface: "ok" or the error
add_network_interface(vm, interface) ==
    IF /\ interface.ip_assignment = "static"
       /\ interface.ip_address # None
       /\ \E i \in DOMAIN vm.network_interfaces :
             /\ vm.network_interfaces[i].ip_assignment = "static"
             /\ vm.network_interfaces[i].ip_address = interface.ip_address
    THEN "IP address already assigned to this VM"
    ELSE "ok"

\* The index of the first element whose field has the value, 0 when there is none.
FirstIndex(seq, field, value) ==
    IF \E i \in DOMAIN seq : seq[i][field] = value
    THEN CHOOSE i \in DOMAIN seq :
             seq[i][field] = value /\ \A j \in 1..(i - 1) : seq[j][field] # value
    ELSE 0

RemoveAt(seq, i) == SubSeq(seq, 1, i - 1) \o SubSeq(seq, i + 1, Len(seq))

\* VirtualMachine.validate_vm: (errors, warnings)
RECURSIVE vm_ip_errors(_, _)
vm_ip_errors(nis, static_ips) ==
    IF nis = <<>> THEN <<>>
    ELSE LET ni == Head(nis)
         IN  IF ni.ip_assignment # "static" THEN vm_ip_errors(Tail(nis), static_ips)
             ELSE IF ni.ip_address = None
                  THEN <<[msg |-> "Static network interface missing IP address"]>>
                           \o vm_ip_errors(Tail(nis), static_ips)
             ELSE (IF ni.ip_address \in static_ips
                   THEN <<[msg |-> "Duplicate IP address", ip |-> ni.ip_address]>>
                   ELSE <<>>)
                      \o vm_ip_errors(Tail(nis), static_ips \cup {ni.ip_address})

RECURSIVE vm_path_errors(_, _)
vm_path_errors(folders, guest_paths) ==
    IF folders = <<>> THEN <<>>
    ELSE (IF Head(folders).guest_path \in guest_paths
          THEN <<[msg |-> "Duplicate guest path", path |-> Head(folders).guest_path]>>
          ELSE <<>>)
             \o vm_path_errors(Tail(folders), guest_paths \cup {Head(folders).guest_path})

validate_vm(vm) ==
    [errors |-> vm_ip_errors(vm.network_interfaces, {})
                    \o vm_path_errors(vm.synced_folders, {}),
     warnings |->
        (IF vm.network_interfaces = <<>>
         THEN <<[msg |-> "No network interfaces configured"]>> ELSE <<>>)
        \o (IF vm.memory < DefaultMemory
            THEN <<[msg |-> "Low memory allocation"]>> ELSE <<>>)
        \o (IF vm.provisioners = <<>>
            THEN <<[msg |-> "No provisioners configured"]>> ELSE <<>>)]

(***************************************************************************)
(* models/project.py                                                       *)
(***************************************************************************)
InvalidNameChars == {"/", "\\", ":", "*", "?", "\"", "<", ">", "|"}
MaxProjectNameLen == 100

\* Field(min_length=1, max_length=100) and ProjectBase.validate_name
validate_name(v) ==
    IF Len(v) < 1 \/ Len(v) > MaxProjectNameLen THEN "name: length"
    ELSE IF \E i \in DOMAIN v : v[i] \in InvalidNameChars
         THEN "Project name contains invalid characters"
    ELSE IF v[1] \in {" ", "."} \/ v[Len(v)] \in {" ", "."}
         THEN "Project name cannot start or end with space or dot"
    ELSE "ok"

\* validate_vm_names_unique (Project and ProjectUpdate)
validate_vm_names_unique(vms) ==
    IF Cardinality({vms[i].name : i \in DOMAIN vms}) # Len(vms)
    THEN "VM names must be unique within the project"
    ELSE "ok"

\* Project.add_vm: "ok" or the error
add_vm(project, vm) ==
    IF \E i \in DOMAIN project.vms : project.vms[i].name = vm.name
    THEN "VM with this name already exists in project"
    ELSE "ok"

\* Project.get_vm as an index into vms (0: None)
get_vm(project, vm_name) ==
    FirstIndex(project.vms, "name", vm_name)

\* Project.validate_for_generation
RECURSIVE PrefixVm(_, _)
PrefixVm(name, entries) ==
    IF entries = <<>> THEN <<>>
    ELSE <<[msg |-> "VM", vm |-> name, entry |-> Head(entries)]>>
             \o PrefixVm(name, Tail(entries))

RECURSIVE FlattenInterfaces(_)
FlattenInterfaces(vms) ==
    IF vms = <<>> THEN <<>>
    ELSE Head(vms).network_interfaces \o FlattenInterfaces(Tail(vms))

RECURSIVE ip_conflicts(_, _)
ip_conflicts(nis, ip_addresses) ==
    IF nis = <<>> THEN <<>>
    ELSE LET ni == Head(nis)
         IN  IF ni.ip_assignment = "static" /\ ni.ip_address # None
             THEN IF ni.ip_address \in ip_addresses
                  THEN <<[msg |-> "IP address conflict", ip |-> ni.ip_address]>>
                           \o ip_conflicts(Tail(nis), ip_addresses)
                  ELSE ip_conflicts(Tail(nis), ip_addresses \cup {ni.ip_address})
             ELSE ip_conflicts(Tail(nis), ip_addresses)

RECURSIVE vm_findings(_, _)
vm_findings(vms, field) ==
    IF vms = <<>> THEN <<>>
    ELSE PrefixVm(Head(vms).name, validate_vm(Head(vms))[field])
             \o vm_findings(Tail(vms), field)

validate_for_generation(project) ==
    LET errors ==
            (IF project.vms = <<>>
             THEN <<[msg |-> "Project must have at least one virtual machine"]>>
             ELSE <<>>)
            \o vm_findings(project.vms, "errors")
            \o ip_conflicts(FlattenInterfaces(project.vms), {})
    IN  [is_valid |-> errors = <<>>,
         errors |-> errors,
         warnings |-> vm_findings(project.vms, "warnings")]

(***************************************************************************)
(* services/validation_service.py                                          *)
(* The suggestions list, the warnings of validate_network_interface and    *)
(* the overlapping-network warning do not enter errors or is_valid and are *)
(* left out; the netmask of every interface here is the default one, which *)
(* IPv4Network accepts.                                                    *)
(***************************************************************************)
ServiceMaxNameLen == 50
ManyVms == 10
HighTotalMemory == 16384
ExcessiveTotalMemory == 32768
HighTotalCpus == 8
ExcessiveTotalCpus == 16
HighVmMemory == 8192
HighVmCpus == 4

RECURSIVE SumField(_, _)
SumField(vms, field) ==
    IF vms = <<>> THEN 0 ELSE Head(vms)[field] + SumField(Tail(vms), field)

\* The bytes a netmask is made of: a run of one-bits followed by zero-bits
MaskBytes == {0, 128, 192, 224, 240, 248, 252, 254, 255}

\* ipaddress._prefix_from_ip_int accepts the four bytes: ones, then zeros
IsNetmaskBytes(parts) ==
    \E j \in 1..4 :
        /\ parts[j] \in MaskBytes
        /\ \A i \in 1..4 : (i < j => parts[i] = 255) /\ (i > j => parts[i] = 0)

\* ipaddress.IPv4Network(f"192.168.1.1/{netmask}", strict=False): "ok" or the
\* exception. The text is split at "/": a netmask that itself starts with "/"
\* leaves three pieces, which is an AddressValueError. A dotted-decimal one is
\* taken as a netmask, or else, with every bit inverted, as a hostmask.
IPv4Network(netmask) ==
    IF netmask.form = "cidr" THEN "AddressValueError"
    ELSE IF IsNetmaskBytes(netmask.parts) THEN "ok"
    ELSE IF IsNetmaskBytes([i \in 1..4 |-> 255 - netmask.parts[i]]) THEN "ok"
    ELSE "NetmaskValueError"

\* ValidationService.validate_network_interface: errors, when it returns
service_interface_errors(interface) ==
    (IF interface.ip_assignment = "static"
     THEN IF interface.ip_address = None
          THEN <<[msg |-> "Static IP assignment requires an IP address"]>>
          ELSE IF ~IsIPv4(Val(interface.ip_address))
          THEN <<[msg |-> "Invalid IP address format", ip |-> interface.ip_address]>>
          ELSE IF is_loopback(Val(interface.ip_address))
          THEN <<[msg |-> "Cannot use loopback IP address"]>>
          ELSE IF is_multicast(Val(interface.ip_address))
          THEN <<[msg |-> "Cannot use multicast IP address"]>>
          ELSE <<>>
     ELSE <<>>)
    \o (IF IPv4Network(interface.netmask) = "NetmaskValueError"
        THEN <<[msg |-> "Invalid netmask", netmask |-> interface.netmask]>>
        ELSE <<>>)
    \o (IF /\ interface.type = "forwarded_port"
           /\ (interface.guest_port = None \/ interface.host_port = None)
        THEN <<[msg |-> "Port forwarding requires both guest and host ports"]>>
        ELSE <<>>)

\* ValidationService.validate_network_interface: the exception that leaves it,
\* Null when it returns, and the errors of the result it returns
validate_network_interface(interface) ==
    [raised |-> IF IPv4Network(interface.netmask) = "AddressValueError"
                THEN "AddressValueError" ELSE Null,
     errors |-> IF IPv4Network(interface.netmask) = "AddressValueError"
                THEN <<>> ELSE service_interface_errors(interface)]

RECURSIVE service_interfaces_errors(_)
service_interfaces_errors(nis) ==
    IF nis = <<>> THEN <<>>
    ELSE service_interface_errors(Head(nis)) \o service_interfaces_errors(Tail(nis))

\* ValidationService.validate_vm
service_validate_vm(vm) ==
    [errors |->
        (IF ~IsWord(vm.name)
         THEN <<[msg |-> "VM name can only contain letters, numbers, underscores, and hyphens"]>>
         ELSE <<>>)
        \o (IF strip(vm.box) = <<>> THEN <<[msg |-> "VM box cannot be empty"]>> ELSE <<>>)
        \o (IF vm.cpus < MinCpus THEN <<[msg |-> "VM must have at least 1 CPU"]>> ELSE <<>>)
        \o service_interfaces_errors(vm.network_interfaces),
     warnings |->
        (IF vm.memory < MinMemory
         THEN <<[msg |-> "Memory allocation is below recommended minimum (512MB)"]>>
         ELSE <<>>)
        \o (IF vm.memory > HighVmMemory
            THEN <<[msg |-> "High memory allocation may impact host system"]>> ELSE <<>>)
        \o (IF vm.cpus > HighVmCpus
            THEN <<[msg |-> "High CPU allocation may impact host system"]>> ELSE <<>>)]

\* _validate_project_basic
validate_project_basic(project) ==
    [errors |->
        (IF strip(project.name) = <<>>
         THEN <<[msg |-> "Project name cannot be empty"]>> ELSE <<>>)
        \o (IF Len(project.name) > ServiceMaxNameLen
            THEN <<[msg |-> "Project name cannot exceed 50 characters"]>> ELSE <<>>)
        \o (IF ~IsWord(project.name)
            THEN <<[msg |-> "Project name can only contain letters, numbers, underscores, and hyphens"]>>
            ELSE <<>>),
     warnings |->
        (IF Len(project.vms) = 0
         THEN <<[msg |-> "Project has no VMs defined"]>> ELSE <<>>)
        \o (IF Len(project.vms) > ManyVms
            THEN <<[msg |-> "Project has many VMs - this may impact performance"]>>
            ELSE <<>>)]

\* _validate_project_vms
RECURSIVE validate_project_vms(_, _, _)
validate_project_vms(vms, vm_names, field) ==
    IF vms = <<>> THEN <<>>
    ELSE LET vm == Head(vms)
         IN  (IF field = "errors" /\ vm.name \in vm_names
              THEN <<[msg |-> "Duplicate VM name", vm |-> vm.name]>> ELSE <<>>)
             \o PrefixVm(vm.name, service_validate_vm(vm)[field])
             \o validate_project_vms(Tail(vms), vm_names \cup {vm.name}, field)

\* _validate_project_networking, lines 109-123
RECURSIVE validate_project_networking(_, _)
validate_project_networking(nis, used_ips) ==
    IF nis = <<>> THEN <<>>
    ELSE LET ni == Head(nis)
         IN  IF ni.ip_address # None
             THEN (IF ni.ip_address \in used_ips
                   THEN <<[msg |-> "IP address conflict", ip |-> ni.ip_address]>>
                   ELSE <<>>)
                  \o (IF ~IsIPv4(Val(ni.ip_address))
                      THEN <<[msg |-> "Invalid IP address", ip |-> ni.ip_address]>>
                      ELSE <<>>)
                  \o validate_project_networking(Tail(nis), used_ips \cup {ni.ip_address})
             ELSE validate_project_networking(Tail(nis), used_ips)

\* _validate_project_resources
RECURSIVE vm_resource_warnings(_)
vm_resource_warnings(vms) ==
    IF vms = <<>> THEN <<>>
    ELSE LET vm == Head(vms)
         IN  (IF vm.memory < MinMemory
              THEN <<[msg |-> "low memory allocation", vm |-> vm.name]>> ELSE <<>>)
             \o (IF vm.memory > HighVmMemory
                 THEN <<[msg |-> "high memory allocation", vm |-> vm.name]>> ELSE <<>>)
             \o (IF vm.cpus > HighVmCpus
                 THEN <<[msg |-> "high CPU allocation", vm |-> vm.name]>> ELSE <<>>)
             \o vm_resource_warnings(Tail(vms))

validate_project_resources(project) ==
    LET total_memory == SumField(project.vms, "memory")
        total_cpus == SumField(project.vms, "cpus")
    IN  [errors |->
            (IF total_memory > ExcessiveTotalMemory
             THEN <<[msg |-> "Excessive memory allocation", total |-> total_memory]>>
             ELSE <<>>)
            \o (IF total_cpus > ExcessiveTotalCpus
                THEN <<[msg |-> "Excessive CPU allocation", total |-> total_cpus]>>
                ELSE <<>>),
         warnings |->
            (IF total_memory > HighTotalMemory
             THEN <<[msg |-> "High total memory allocation", total |-> total_memory]>>
             ELSE <<>>)
            \o (IF total_cpus > HighTotalCpus
                THEN <<[msg |-> "High total CPU allocation", total |-> total_cpus]>>
                ELSE <<>>)
            \o vm_resource_warnings(project.vms)]

\* ValidationService.validate_project
validate_project(project) ==
    LET errors ==
            validate_project_basic(project).errors
            \o validate_project_vms(project.vms, {}, "errors")
            \o validate_project_networking(FlattenInterfaces(project.vms), {})
            \o validate_project_resources(project).errors
        warnings ==
            validate_project_basic(project).warnings
            \o validate_project_vms(project.vms, {}, "warnings")
            \o validate_project_resources(project).warnings
    IN  [is_valid |-> errors = <<>>, errors |-> errors, warnings |-> warnings]

(***************************************************************************)
(* services/vagrantfile_generator.py is not part of the sources at hand:   *)
(* VagrantfileGenerator is modelled from its specification (the document   *)
(* skeleton and the envelope of generate_with_validation).                 *)
(***************************************************************************)
RECURSIVE generate_vm_blocks(_)
generate_vm_blocks(vms) ==
    IF vms = <<>> THEN <<>>
    ELSE <<[define |-> Head(vms).name, box |-> Head(vms).box,
            memory |-> Head(vms).memory, cpus |-> Head(vms).cpus,
            networks |-> Len(Head(vms).network_interfaces)], [line |-> "end"]>>
             \o generate_vm_blocks(Tail(vms))

generate(project) ==
    [content |-> <<[line |-> "Vagrant.configure(\"2\") do |config|"]>>
                     \o generate_vm_blocks(project.vms)
                     \o <<[line |-> "end"]>>,
     filename |-> "Vagrantfile"]

generate_with_validation(project) ==
    [content |-> generate(project).content,
     filename |-> generate(project).filename,
     validation |-> validate_for_generation(project)]

(***************************************************************************)
(* services/project_service.py and api/: the requests                      *)
(***************************************************************************)
EmptyStore == [id \in {} |-> id]

\* _save_project_to_file
Save(store, id, project) ==
    [k \in DOMAIN store \cup {id} |-> IF k = id THEN project ELSE store[k]]

ReplaceAt(seq, i, v) == [seq EXCEPT ![i] = v]

\* The ids of the interfaces stored anywhere
UsedIds(store) ==
    UNION {{ni.id : ni \in Range(FlattenInterfaces(store[p].vms))} : p \in DOMAIN store}

\* request.headers.get("X-Allow-Public-IPs") == "true", as the update of the config
HeaderConfig(header) == [allow_public_ips_in_private_networks |-> header]

\* Project.version: the default of the field, which no request overrides
DataModelVersion == <<"1", ".", "0", ".", "0">>

\* A creation that does not look at the names in use
create_project_mutant(store, id, data) ==
    IF validate_name(data.name) # "ok" THEN [status |-> 422, store |-> store]
    ELSE [status |-> 201,
          store |-> Save(store, id, [name |-> strip(data.name),
                                     deployment_status |-> "draft",
                                     vms |-> <<>>,
                                     global_plugins |-> <<>>,
                                     global_provisioners |-> <<>>,
                                     description |-> Get(data, "description", <<>>),
                                     version |-> DataModelVersion])]

\* POST /projects: ProjectCreate is validated by the framework (422), then
\* ProjectService.create_project
create_project(store, id, data) ==
    IF validate_name(data.name) # "ok" THEN [status |-> 422, store |-> store]
    ELSE IF \E p \in DOMAIN store : store[p].name = strip(data.name)
    THEN [status |-> 409, store |-> store]
    ELSE [status |-> 201,
          store |-> Save(store, id, [name |-> strip(data.name),
                                     deployment_status |-> "draft",
                                     vms |-> <<>>,
                                     global_plugins |-> <<>>,
                                     global_provisioners |-> <<>>,
                                     description |-> Get(data, "description", <<>>),
                                     version |-> DataModelVersion])]

\* POST /projects/{project_id}/vms
create_vm(store, config, project_id, vm_data, header) ==
    IF project_id \notin DOMAIN store
    THEN [status |-> 404, store |-> store, config |-> config]
    ELSE IF store[project_id].deployment_status = "ready"
    THEN [status |-> 400, store |-> store, config |-> config]
    ELSE LET cfg == set_validation_config(config, HeaderConfig(header))
             vm_create == VirtualMachineInit(vm_data, UsedIds(store), cfg)
             vm == VirtualMachineInit(vm_create.value, UsedIds(store), cfg)
             project == store[project_id]
         IN  IF ~vm_create.ok \/ ~vm.ok \/ add_vm(project, vm.value) # "ok"
             THEN [status |-> 409, store |-> store, config |-> cfg]
             ELSE [status |-> 201,
                   store |-> Save(store, project_id,
                                  [project EXCEPT !.vms = Append(@, vm.value)]),
                   config |-> cfg,
                   vm |-> vm.value]

\* PUT /projects/{project_id}/vms/{vm_name} with
\* ProjectService.update_vm_in_project: every field of the body is assigned to
\* the stored VM, the project is saved, and the VM is then looked up under the
\* name of the URL.
update_vm(store, config, project_id, vm_name, vm_data, header) ==
    IF project_id \notin DOMAIN store
    THEN [status |-> 404, store |-> store, config |-> config]
    ELSE IF store[project_id].deployment_status = "ready"
    THEN [status |-> 400, store |-> store, config |-> config]
    ELSE LET cfg == set_validation_config(config, HeaderConfig(header))
             vm_create == VirtualMachineInit(vm_data, UsedIds(store), cfg)
             project == store[project_id]
             i == get_vm(project, vm_name)
             saved == [project EXCEPT !.vms = ReplaceAt(@, i, vm_create.value)]
         IN  IF ~vm_create.ok \/ i = 0
             THEN [status |-> 400, store |-> store, config |-> cfg]
             ELSE [status |-> IF get_vm(saved, vm_name) = 0 THEN 404 ELSE 200,
                   store |-> Save(store, project_id, saved),
                   config |-> cfg]

\* A removal that drops the first VM of the project, whichever is named
delete_vm_first(store, project_id, vm_name) ==
    IF project_id \notin DOMAIN store THEN [status |-> 404, store |-> store]
    ELSE IF store[project_id].deployment_status = "ready"
    THEN [status |-> 400, store |-> store]
    ELSE LET project == store[project_id]
             i == get_vm(project, vm_name)
         IN  IF i = 0 THEN [status |-> 404, store |-> store]
             ELSE [status |-> 204,
                   store |-> Save(store, project_id,
                                  [project EXCEPT !.vms = Tail(@)])]

\* DELETE /projects/{project_id}/vms/{vm_name} with Project.remove_vm
delete_vm(store, project_id, vm_name) ==
    IF project_id \notin DOMAIN store THEN [status |-> 404, store |-> store]
    ELSE IF store[project_id].deployment_status = "ready"
    THEN [status |-> 400, store |-> store]
    ELSE LET project == store[project_id]
             i == get_vm(project, vm_name)
         IN  IF i = 0 THEN [status |-> 404, store |-> store]
             ELSE [status |-> 204,
                   store |-> Save(store, project_id,
                                  [project EXCEPT !.vms = RemoveAt(@, i)])]

\* POST /projects/{project_id}/vms/{vm_name}/network-interfaces
api_add_network_interface(store, config, project_id, vm_name, interface_data, header) ==
    IF project_id \notin DOMAIN store
    THEN [status |-> 404, store |-> store, config |-> config]
    ELSE IF store[project_id].deployment_status = "ready"
    THEN [status |-> 400, store |-> store, config |-> config]
    ELSE LET cfg == set_validation_config(config, HeaderConfig(header))
             interface == NetworkInterfaceInit(interface_data,
                                               FreshId(UsedIds(store), 1), cfg)
             project == store[project_id]
             i == get_vm(project, vm_name)
         IN  IF ~interface.ok THEN [status |-> 400, store |-> store, config |-> cfg]
             ELSE IF i = 0 THEN [status |-> 404, store |-> store, config |-> cfg]
             ELSE IF add_network_interface(project.vms[i], interface.value) # "ok"
             THEN [status |-> 400, store |-> store, config |-> cfg]
             ELSE [status |-> 201,
                   store |-> Save(store, project_id,
                                  [project EXCEPT !.vms[i].network_interfaces =
                                                      Append(@, interface.value)]),
                   config |-> cfg]

\* PUT .../network-interfaces/{interface_id}: setattr of every key of the body
\* that is a field of the interface; nothing is validated.
api_update_network_interface(store, config, project_id, vm_name, interface_id, interface_data, header) ==
    IF project_id \notin DOMAIN store
    THEN [status |-> 404, store |-> store, config |-> config]
    ELSE IF store[project_id].deployment_status = "ready"
    THEN [status |-> 400, store |-> store, config |-> config]
    ELSE LET cfg == set_validation_config(config, HeaderConfig(header))
             project == store[project_id]
             i == get_vm(project, vm_name)
             n == IF i = 0 THEN 0 ELSE FirstIndex(project.vms[i].network_interfaces, "id", interface_id)
         IN  IF i = 0 \/ n = 0 THEN [status |-> 404, store |-> store, config |-> cfg]
             ELSE LET old == project.vms[i].network_interfaces[n]
                      new == [k \in DOMAIN old |->
                                 IF k \in DOMAIN interface_data
                                 THEN interface_data[k] ELSE old[k]]
                  IN  [status |-> 200,
                       store |-> Save(store, project_id,
                                      [project EXCEPT
                                          !.vms[i].network_interfaces[n] = new]),
                       config |-> cfg]

\* DELETE .../network-interfaces/{interface_id} with
\* VirtualMachine.remove_network_interface
api_delete_network_interface(store, project_id, vm_name, interface_id) ==
    IF project_id \notin DOMAIN store THEN [status |-> 404, store |-> store]
    ELSE IF store[project_id].deployment_status = "ready"
    THEN [status |-> 400, store |-> store]
    ELSE LET project == store[project_id]
             i == get_vm(project, vm_name)
             n == IF i = 0 THEN 0 ELSE FirstIndex(project.vms[i].network_interfaces, "id", interface_id)
         IN  IF i = 0 \/ n = 0 THEN [status |-> 404, store |-> store]
             ELSE [status |-> 204,
                   store |-> Save(store, project_id,
                                  [project EXCEPT !.vms[i].network_interfaces =
                                                      RemoveAt(@, n)])]

\* ProjectUpdate(**body), built by the framework before the handler runs: the VMs
\* of the body are validated under the configuration the previous requests left.
\* The number of interfaces in the first j VM bodies of a request
RECURSIVE InterfacesBefore(_, _)
InterfacesBefore(vm_datas, j) ==
    IF j = 0 THEN 0
    ELSE Len(Get(vm_datas[j], "network_interfaces", <<>>))
             + InterfacesBefore(vm_datas, j - 1)

\* List[VirtualMachineCreate]: every VM of the body is constructed in turn,
\* each interface receiving an id of its own
BuildVms(vm_datas, used, config) ==
    [j \in DOMAIN vm_datas |->
        VirtualMachineInit(
            vm_datas[j],
            used \cup {FreshId(used, k) : k \in 1..InterfacesBefore(vm_datas, j - 1)},
            config)]

ProjectUpdateInit(data, used, config) ==
    LET built == BuildVms(Get(data, "vms", <<>>), used, config)
        vms == [i \in DOMAIN built |-> built[i].value]
        plugins == [i \in DOMAIN Get(data, "global_plugins", <<>>) |->
                       PluginConfigurationInit(data.global_plugins[i])]
    IN  [ok |-> /\ "name" \in DOMAIN data
                /\ validate_name(data.name) = "ok"
                /\ \A i \in DOMAIN built : built[i].ok
                /\ validate_vm_names_unique(vms) = "ok"
                /\ \A i \in DOMAIN plugins : plugins[i].ok
                /\ Get(data, "deployment_status", "draft") \in {"draft", "ready"},
         value |-> [name |-> strip(Get(data, "name", <<>>)), vms |-> vms,
                    global_plugins |-> [i \in DOMAIN plugins |-> plugins[i].value],
                    description |-> Get(data, "description", <<>>),
                    deployment_status |-> Get(data, "deployment_status", "draft"),
                    version |-> Get(data, "version", DataModelVersion),
                    global_provisioners |-> Get(data, "global_provisioners", <<>>)]]

\* An update that copies every field of the body into the stored project
update_project_whole(store, config, project_id, data) ==
    LET project_data == ProjectUpdateInit(data, UsedIds(store), config)
    IN  IF ~project_data.ok THEN [status |-> 422, store |-> store]
        ELSE IF project_id \notin DOMAIN store THEN [status |-> 404, store |-> store]
        ELSE IF store[project_id].deployment_status = "ready"
        THEN [status |-> 400, store |-> store]
        ELSE IF /\ project_data.value.name # store[project_id].name
                /\ \E p \in DOMAIN store :
                      p # project_id /\ store[p].name = project_data.value.name
        THEN [status |-> 400, store |-> store]
        ELSE [status |-> 200, store |-> Save(store, project_id, project_data.value)]

\* PUT /projects/{project_id} with ProjectService.update_project
update_project(store, config, project_id, data) ==
    LET project_data == ProjectUpdateInit(data, UsedIds(store), config)
    IN  IF ~project_data.ok THEN [status |-> 422, store |-> store]
        ELSE IF project_id \notin DOMAIN store THEN [status |-> 404, store |-> store]
        ELSE IF store[project_id].deployment_status = "ready"
        THEN [status |-> 400, store |-> store]
        ELSE IF /\ project_data.value.name # store[project_id].name
                /\ \E p \in DOMAIN store :
                      p # project_id /\ store[p].name = project_data.value.name
        THEN [status |-> 400, store |-> store]
        ELSE [status |-> 200,
              store |-> Save(store, project_id,
                             [store[project_id] EXCEPT
                                 !.name = project_data.value.name,
                                 !.description = project_data.value.description,
                                 !.vms = project_data.value.vms,
                                 !.global_plugins = project_data.value.global_plugins])]

\* PATCH /projects/{project_id}/deployment-status
update_deployment_status(store, project_id, status) ==
    IF project_id \notin DOMAIN store THEN [status |-> 404, store |-> store]
    ELSE [status |-> 200,
          store |-> Save(store, project_id,
                         [store[project_id] EXCEPT !.deployment_status = status])]

\* POST /projects/{project_id}/validate with ProjectService.validate_project
api_validate_project(store, project_id) ==
    IF project_id \notin DOMAIN store THEN [status |-> 404]
    ELSE [status |-> 200, result |-> validate_for_generation(store[project_id])]

\* A handler that refuses to generate for a project that does not validate
generate_vagrantfile_mutant(store, project_id) ==
    IF project_id \notin DOMAIN store THEN [status |-> 404]
    ELSE IF ~validate_for_generation(store[project_id]).is_valid THEN [status |-> 400]
    ELSE [status |-> 200, result |-> generate_with_validation(store[project_id])]

\* POST /projects/{project_id}/generate
generate_vagrantfile(store, project_id) ==
    IF project_id \notin DOMAIN store THEN [status |-> 404]
    ELSE [status |-> 200, result |-> generate_with_validation(store[project_id])]

\* A delete that does not look at the deployment status
delete_project_mutant(store, project_id) ==
    IF project_id \notin DOMAIN store THEN [status |-> 404, store |-> store]
    ELSE [status |-> 204, store |-> [k \in DOMAIN store \ {project_id} |-> store[k]]]

\* A deletion that answers 204 and leaves the file where it is
delete_project_kept(store, project_id) ==
    IF project_id \notin DOMAIN store THEN [status |-> 404, store |-> store]
    ELSE IF store[project_id].deployment_status = "ready"
    THEN [status |-> 500, store |-> store]
    ELSE [status |-> 204, store |-> store]

\* DELETE /projects/{project_id} with ProjectService.delete_project: the
\* ValueError of a locked project is not caught by the handler, and the
\* framework answers 500
delete_project(store, project_id) ==
    IF project_id \notin DOMAIN store THEN [status |-> 404, store |-> store]
    ELSE IF store[project_id].deployment_status = "ready"
    THEN [status |-> 500, store |-> store]
    ELSE [status |-> 204, store |-> [k \in DOMAIN store \ {project_id} |-> store[k]]]

\* GET /projects/{project_id} with ProjectService.get_project
get_project(store, project_id) ==
    IF project_id \notin DOMAIN store THEN [status |-> 404]
    ELSE [status |-> 200, project |-> store[project_id]]

\* ProjectService.list_projects: one summary per stored project. The order, by
\* created_at, is left out with the timestamps.
list_projects(store) ==
    {[id |-> p, name |-> store[p].name, vm_count |-> Len(store[p].vms),
      deployment_status |-> store[p].deployment_status] : p \in DOMAIN store}

\* POST /projects/{project_id}/plugins with ProjectService.add_plugin_to_project
add_plugin_to_project(store, project_id, plugin_data) ==
    IF project_id \notin DOMAIN store THEN [status |-> 404, store |-> store]
    ELSE IF store[project_id].deployment_status = "ready"
    THEN [status |-> 400, store |-> store]
    ELSE LET project == store[project_id]
             plugin == PluginConfigurationInit(plugin_data)
         IN  IF ~plugin.ok THEN [status |-> 409, store |-> store]
             ELSE IF FirstIndex(project.global_plugins, "name", plugin.value.name) # 0
             THEN [status |-> 409, store |-> store]
             ELSE [status |-> 201,
                   store |-> Save(store, project_id,
                                  [project EXCEPT
                                      !.global_plugins = Append(@, plugin.value)])]

\* PUT /projects/{project_id}/plugins/{plugin_name} with
\* ProjectService.update_plugin_in_project: the plugin is replaced and saved,
\* then looked up under the name of the path
update_project_plugin(store, project_id, plugin_name, plugin_data) ==
    IF project_id \notin DOMAIN store THEN [status |-> 404, store |-> store]
    ELSE IF store[project_id].deployment_status = "ready"
    THEN [status |-> 400, store |-> store]
    ELSE LET project == store[project_id]
             plugin == PluginConfigurationInit(plugin_data)
             i == FirstIndex(project.global_plugins, "name", plugin_name)
             plugins == ReplaceAt(project.global_plugins, i, plugin.value)
         IN  IF ~plugin.ok \/ i = 0 THEN [status |-> 400, store |-> store]
             ELSE [status |-> IF FirstIndex(plugins, "name", plugin_name) = 0
                              THEN 404 ELSE 200,
                   store |-> Save(store, project_id,
                                  [project EXCEPT !.global_plugins = plugins])]

\* DELETE /projects/{project_id}/plugins/{plugin_name} with
\* ProjectService.remove_plugin_from_project
remove_plugin_from_project(store, project_id, plugin_name) ==
    IF project_id \notin DOMAIN store THEN [status |-> 404, store |-> store]
    ELSE IF store[project_id].deployment_status = "ready"
    THEN [status |-> 400, store |-> store]
    ELSE LET project == store[project_id]
             plugins == SelectSeq(project.global_plugins,
                                  LAMBDA p : p.name # plugin_name)
         IN  IF Len(plugins) = Len(project.global_plugins)
             THEN [status |-> 404, store |-> store]
             ELSE [status |-> 204,
                   store |-> Save(store, project_id,
                                  [project EXCEPT !.global_plugins = plugins])]

\* The methods of ProjectService (services/project_service.py). The handlers
\* of project_provisioners.py and project_triggers.py call
\* add_provisioner_to_project, remove_provisioner_from_project,
\* add_trigger_to_project and remove_trigger_from_project, none of which the
\* class has: the call raises AttributeError before anything is loaded or saved.
ProjectServiceMethods ==
    {"create_project", "get_project", "update_project", "update_deployment_status",
     "delete_project", "list_projects", "list_projects_by_status",
     "validate_project", "project_exists", "get_project_count", "add_vm_to_project", "update_vm_in_project",
     "remove_vm_from_project", "add_plugin_to_project", "update_plugin_in_project",
     "remove_plugin_from_project"}

\* POST /projects/{project_id}/provisioners/{provisioner_id}: get_provisioner
\* answers None for an unknown id and raises nothing, so the handler goes on
\* to the project service; AttributeError falls to "except Exception"
add_provisioner_to_project(store, project_id, provisioner_id) ==
    IF "add_provisioner_to_project" \notin ProjectServiceMethods
    THEN [status |-> 500, store |-> store]
    ELSE [status |-> 204, store |-> store]

\* DELETE /projects/{project_id}/provisioners/{provisioner_id}
remove_provisioner_from_project(store, project_id, provisioner_id) ==
    IF "remove_provisioner_from_project" \notin ProjectServiceMethods
    THEN [status |-> 500, store |-> store]
    ELSE [status |-> 204, store |-> store]

\* POST /projects/{project_id}/triggers/{trigger_id}: 404 when the trigger
\* store has no such trigger, then the project service
add_trigger_to_project(store, triggers, project_id, trigger_id) ==
    IF trigger_id \notin triggers THEN [status |-> 404, store |-> store]
    ELSE IF "add_trigger_to_project" \notin ProjectServiceMethods
    THEN [status |-> 500, store |-> store]
    ELSE [status |-> 201, store |-> store]

\* DELETE /projects/{project_id}/triggers/{trigger_id}
remove_trigger_from_project(store, project_id, trigger_id) ==
    IF "remove_trigger_from_project" \notin ProjectServiceMethods
    THEN [status |-> 500, store |-> store]
    ELSE [status |-> 204, store |-> store]

\* GlobalProvisionerService.get_provisioner: None when the store has no file
\* for the id; nothing is raised for an unknown id
get_provisioner(provisioners, provisioner_id) ==
    IF provisioner_id \in provisioners THEN Some([id |-> provisioner_id]) ELSE None

\* GET /projects/{project_id}/provisioners: reading .id of the None that
\* get_provisioner gives for an unknown id raises AttributeError, which is not
\* the GlobalProvisionerServiceError the loop skips on, so it ends the request
\* in "except Exception"
get_project_provisioners(store, provisioners, project_id) ==
    IF project_id \notin DOMAIN store THEN [status |-> 404]
    ELSE LET ids == store[project_id].global_provisioners
             found == [i \in DOMAIN ids |-> get_provisioner(provisioners, ids[i])]
         IN  IF \E i \in DOMAIN found : found[i] = None THEN [status |-> 500]
             ELSE [status |-> 200, body |-> [i \in DOMAIN found |-> Val(found[i]).id]]

\* GET /projects/{project_id}/triggers: a Project has no field global_triggers,
\* and a project that is not found raises ProjectNotFoundError; both fall to
\* "except Exception"
get_project_triggers(store, triggers, project_id) ==
    IF project_id \notin DOMAIN store THEN [status |-> 500]
    ELSE IF "global_triggers" \notin DOMAIN store[project_id] THEN [status |-> 500]
    ELSE [status |-> 200,
          body |-> SelectSeq(store[project_id].global_triggers,
                             LAMBDA t : t \in triggers)]

(***************************************************************************)
(* The requests a client sends                                             *)
(***************************************************************************)
MaxVms == 2
MaxInterfaces == 1

ProjectIdPool == {"p1"}
RequestProjectIds == ProjectIdPool \cup {"p9"}

PlainName == <<"p", "1">>
SpacedName == <<"m", " ", "p">>
ProjectNames == {PlainName, SpacedName, <<"a", "/">>}
Web == <<"w", "e", "b">>
Db == <<"d", "b">>
VmNames == {Web, Db}
BoxName == <<"u", "/", "j">>

PrivateAddress == <<10, 0, 0, 5>>
PublicAddress == <<8, 8, 8, 8>>

NiStatic ==
    [type |-> "private_network", ip_assignment |-> "static",
     ip_address |-> Some(PrivateAddress)]
NiPublic ==
    [type |-> "private_network", ip_assignment |-> "static",
     ip_address |-> Some(PublicAddress)]
NiStaticNoAddress == [type |-> "private_network", ip_assignment |-> "static"]
NiDhcpWithAddress ==
    [type |-> "private_network", ip_assignment |-> "dhcp",
     ip_address |-> Some(PrivateAddress)]

SmallVm(n) == [name |-> n, box |-> BoxName]
LargeVm(n) == [name |-> n, box |-> BoxName, memory |-> MaxMemory, cpus |-> MaxCpus]
VmWith(n, ni) == [name |-> n, box |-> BoxName, network_interfaces |-> <<ni>>]

\* Requests about projects and their VMs: none of them carries the
\* X-Allow-Public-IPs header
NoOverride == {FALSE}
VmBodies ==
    {SmallVm(n) : n \in VmNames}
        \cup {LargeVm(Db), VmWith(Web, NiStatic), [name |-> <<"1">>, box |-> BoxName]}

ProjectUpdateBodies ==
    {[name |-> n, vms |-> vms] :
        n \in {PlainName, SpacedName},
        vms \in {<<>>,
                 <<SmallVm(Web), SmallVm(Web)>>,
                 <<LargeVm(Db), SmallVm(Web)>>}}

\* Requests about the network interfaces of the VMs
NetVmBodies == {SmallVm(n) : n \in VmNames} \cup {VmWith(Web, NiPublic)}
NetVmUpdates == {VmWith(Web, NiPublic)}

NetInterfaceBodies == {NiStatic, NiPublic, NiStaticNoAddress, NiDhcpWithAddress}
NetInterfaceUpdates == {[ip_address |-> Some(PublicAddress)]}

NetProjectUpdateBodies ==
    {[name |-> PlainName, vms |-> vms] :
        vms \in {<<VmWith(Web, NiPublic)>>,
                 <<VmWith(Web, NiStatic), VmWith(Db, NiStatic)>>}}

\* The body carries a private_network interface whose address lies outside the
\* three private ranges.
IsPublicInPrivate(ni) ==
    /\ Get(ni, "type", Null) = "private_network"
    /\ Get(ni, "ip_address", None) # None
    /\ IsIPv4(Val(ni.ip_address))
    /\ ~is_private(Val(ni.ip_address))

CarriesPublicInPrivate(vm_datas) ==
    \E i \in DOMAIN vm_datas :
        \E n \in DOMAIN Get(vm_datas[i], "network_interfaces", <<>>) :
            IsPublicInPrivate(vm_datas[i].network_interfaces[n])

\* A request names an interface that some VM has, or one that none has
RequestInterfaceIds == UsedIds(projects) \cup {"i0"}

Init ==
    /\ projects = EmptyStore
    /\ validation_config = DefaultValidationConfig
    /\ response = NoResponse
    /\ call = NoCall
    /\ pc = <<>>

CreateProject(names) ==
    \E id \in ProjectIdPool \ DOMAIN projects, name \in names :
        LET r == create_project(projects, id, [name |-> name])
        IN  /\ projects' = r.store
            /\ response' = [op |-> "create_project", status |-> r.status]
            /\ UNCHANGED <<validation_config, call, pc>>

CreateVm(bodies, headers) ==
    \E project_id \in RequestProjectIds, vm_data \in bodies, header \in headers :
        LET r == create_vm(projects, validation_config, project_id, vm_data, header)
        IN  /\ project_id \in DOMAIN projects => Len(projects[project_id].vms) < MaxVms
            /\ projects' = r.store
            /\ validation_config' = r.config
            /\ response' = [op |-> "create_vm", status |-> r.status, header |-> header,
                            public_in_private |-> CarriesPublicInPrivate(<<vm_data>>)]
            /\ UNCHANGED <<call, pc>>

UpdateVm(bodies, headers) ==
    \E project_id \in RequestProjectIds, vm_name \in VmNames,
       vm_data \in bodies, header \in headers :
        LET r == update_vm(projects, validation_config, project_id, vm_name,
                           vm_data, header)
        IN  /\ projects' = r.store
            /\ validation_config' = r.config
            /\ response' = [op |-> "update_vm", status |-> r.status, header |-> header,
                            public_in_private |-> CarriesPublicInPrivate(<<vm_data>>)]
            /\ UNCHANGED <<call, pc>>

DeleteVm ==
    \E project_id \in RequestProjectIds, vm_name \in VmNames :
        LET r == delete_vm(projects, project_id, vm_name)
        IN  /\ projects' = r.store
            /\ response' = [op |-> "delete_vm", status |-> r.status]
            /\ UNCHANGED <<validation_config, call, pc>>

AddNetworkInterface(bodies) ==
    \E project_id \in RequestProjectIds, vm_name \in VmNames,
       interface_data \in bodies, header \in BOOLEAN :
        LET r == api_add_network_interface(projects, validation_config, project_id,
                                           vm_name, interface_data, header)
            i == IF project_id \in DOMAIN projects
                 THEN get_vm(projects[project_id], vm_name) ELSE 0
        IN  /\ i # 0 => Len(projects[project_id].vms[i].network_interfaces) < MaxInterfaces
            /\ projects' = r.store
            /\ validation_config' = r.config
            /\ response' = [op |-> "add_network_interface", status |-> r.status,
                            header |-> header,
                            public_in_private |-> IsPublicInPrivate(interface_data)]
            /\ UNCHANGED <<call, pc>>

UpdateNetworkInterface(bodies) ==
    \E project_id \in RequestProjectIds, vm_name \in VmNames,
       interface_id \in RequestInterfaceIds, interface_data \in bodies,
       header \in BOOLEAN :
        LET r == api_update_network_interface(projects, validation_config, project_id,
                                              vm_name, interface_id, interface_data,
                                              header)
        IN  /\ projects' = r.store
            /\ validation_config' = r.config
            /\ response' = [op |-> "update_network_interface", status |-> r.status,
                            header |-> header,
                            public_in_private |-> IsPublicInPrivate(interface_data)]
            /\ UNCHANGED <<call, pc>>

DeleteNetworkInterface ==
    \E project_id \in RequestProjectIds, vm_name \in VmNames,
       interface_id \in RequestInterfaceIds :
        LET r == api_delete_network_interface(projects, project_id, vm_name,
                                              interface_id)
        IN  /\ projects' = r.store
            /\ response' = [op |-> "delete_network_interface", status |-> r.status]
            /\ UNCHANGED <<validation_config, call, pc>>

UpdateProject(bodies, headers) ==
    \E project_id \in RequestProjectIds, data \in bodies, header \in headers :
        LET r == update_project(projects, validation_config, project_id, data)
        IN  /\ projects' = r.store
            /\ response' = [op |-> "update_project", status |-> r.status,
                            header |-> header,
                            public_in_private |-> CarriesPublicInPrivate(data.vms)]
            /\ UNCHANGED <<validation_config, call, pc>>

ValidateProject ==
    \E project_id \in RequestProjectIds :
        /\ response' = [op |-> "validate_project", project_id |-> project_id]
                           @@ api_validate_project(projects, project_id)
        /\ UNCHANGED <<projects, validation_config, call, pc>>

\* ValidationService().validate_project(project) on a stored project
ServiceValidateProject ==
    \E project_id \in DOMAIN projects :
        /\ response' = [op |-> "ValidationService.validate_project",
                        project_id |-> project_id,
                        result |-> validate_project(projects[project_id])]
        /\ UNCHANGED <<projects, validation_config, call, pc>>

GenerateVagrantfile ==
    \E project_id \in RequestProjectIds :
        /\ response' = [op |-> "generate_vagrantfile", project_id |-> project_id]
                           @@ generate_vagrantfile(projects, project_id)
        /\ UNCHANGED <<projects, validation_config, call, pc>>

UpdateDeploymentStatus ==
    \E project_id \in RequestProjectIds, status \in {"draft", "ready"} :
        LET r == update_deployment_status(projects, project_id, status)
        IN  /\ projects' = r.store
            /\ response' = [op |-> "update_deployment_status", status |-> r.status]
            /\ UNCHANGED <<validation_config, call, pc>>

\* Projects and their VMs
Next ==
    \/ CreateProject(ProjectNames)
    \/ CreateVm(VmBodies, NoOverride)
    \/ UpdateVm(VmBodies, NoOverride)
    \/ DeleteVm
    \/ UpdateProject(ProjectUpdateBodies, NoOverride)
    \/ UpdateDeploymentStatus
    \/ ValidateProject
    \/ ServiceValidateProject
    \/ GenerateVagrantfile

Spec == Init /\ [][Next]_vars

\* The network interfaces of the VMs of one project
NextNet ==
    \/ CreateProject({PlainName})
    \/ CreateVm(NetVmBodies, BOOLEAN)
    \/ UpdateVm(NetVmUpdates, BOOLEAN)
    \/ AddNetworkInterface(NetInterfaceBodies)
    \/ UpdateNetworkInterface(NetInterfaceUpdates)
    \/ DeleteNetworkInterface
    \/ UpdateProject(NetProjectUpdateBodies, BOOLEAN)
    \/ ValidateProject
    \/ ServiceValidateProject

SpecNet == Init /\ [][NextNet]_vars

(***************************************************************************)
(* The deployment lock: every request that changes a project               *)
(***************************************************************************)
Vbguest == <<"v", "b">>
PluginNames == {Vbguest}
LockPluginBodies == {[name |-> Vbguest]}
LockPluginUpdates == {[name |-> Vbguest, scope |-> "global"]}

\* The ids the global provisioner and trigger stores hold, and the ids requests name
GlobalProvisionerIds == {"g1", "g2"}
GlobalTriggerIds == {"r1"}
RequestProvisionerIds == GlobalProvisionerIds \cup {"g9"}
RequestTriggerIds == GlobalTriggerIds \cup {"r9"}

LockVmBodies == {SmallVm(Web)}
LockVmUpdates == {LargeVm(Web)}
LockInterfaceBodies == {NiStatic}
LockInterfaceUpdates == {[ip_address |-> Some(<<10, 0, 0, 6>>)]}
LockProjectUpdateBodies ==
    {[name |-> PlainName, vms |-> <<SmallVm(Web)>>],
     [name |-> PlainName, vms |-> <<>>, global_plugins |-> <<[name |-> Vbguest]>>]}

DeleteProject ==
    \E project_id \in RequestProjectIds :
        LET r == delete_project(projects, project_id)
        IN  /\ projects' = r.store
            /\ response' = [op |-> "delete_project", status |-> r.status]
            /\ UNCHANGED <<validation_config, call, pc>>

AddPlugin ==
    \E project_id \in RequestProjectIds, plugin_data \in LockPluginBodies :
        LET r == add_plugin_to_project(projects, project_id, plugin_data)
        IN  /\ projects' = r.store
            /\ response' = [op |-> "add_plugin", status |-> r.status]
            /\ UNCHANGED <<validation_config, call, pc>>

UpdatePlugin ==
    \E project_id \in RequestProjectIds, plugin_name \in PluginNames,
       plugin_data \in LockPluginUpdates :
        LET r == update_project_plugin(projects, project_id, plugin_name, plugin_data)
        IN  /\ projects' = r.store
            /\ response' = [op |-> "update_plugin", status |-> r.status]
            /\ UNCHANGED <<validation_config, call, pc>>

RemovePlugin ==
    \E project_id \in RequestProjectIds, plugin_name \in PluginNames :
        LET r == remove_plugin_from_project(projects, project_id, plugin_name)
        IN  /\ projects' = r.store
            /\ response' = [op |-> "remove_plugin", status |-> r.status]
            /\ UNCHANGED <<validation_config, call, pc>>

AttachProvisioner ==
    \E project_id \in RequestProjectIds, provisioner_id \in RequestProvisionerIds :
        LET r == add_provisioner_to_project(projects, project_id, provisioner_id)
        IN  /\ projects' = r.store
            /\ response' = [op |-> "add_provisioner", status |-> r.status]
            /\ UNCHANGED <<validation_config, call, pc>>

DetachProvisioner ==
    \E project_id \in RequestProjectIds, provisioner_id \in RequestProvisionerIds :
        LET r == remove_provisioner_from_project(projects, project_id, provisioner_id)
        IN  /\ projects' = r.store
            /\ response' = [op |-> "remove_provisioner", status |-> r.status]
            /\ UNCHANGED <<validation_config, call, pc>>

AttachTrigger ==
    \E project_id \in RequestProjectIds, trigger_id \in RequestTriggerIds :
        LET r == add_trigger_to_project(projects, GlobalTriggerIds, project_id, trigger_id)
        IN  /\ projects' = r.store
            /\ response' = [op |-> "add_trigger", status |-> r.status]
            /\ UNCHANGED <<validation_config, call, pc>>

DetachTrigger ==
    \E project_id \in RequestProjectIds, trigger_id \in RequestTriggerIds :
        LET r == remove_trigger_from_project(projects, project_id, trigger_id)
        IN  /\ projects' = r.store
            /\ response' = [op |-> "remove_trigger", status |-> r.status]
            /\ UNCHANGED <<validation_config, call, pc>>

NextLock ==
    \/ CreateProject({PlainName})
    \/ UpdateProject(LockProjectUpdateBodies, NoOverride)
    \/ DeleteProject
    \/ UpdateDeploymentStatus
    \/ CreateVm(LockVmBodies, NoOverride)
    \/ UpdateVm(LockVmUpdates, NoOverride)
    \/ DeleteVm
    \/ AddNetworkInterface(LockInterfaceBodies)
    \/ UpdateNetworkInterface(LockInterfaceUpdates)
    \/ DeleteNetworkInterface
    \/ AddPlugin
    \/ UpdatePlugin
    \/ RemovePlugin
    \/ AttachProvisioner
    \/ DetachProvisioner
    \/ AttachTrigger
    \/ DetachTrigger

SpecLock == Init /\ [][NextLock]_vars

(***************************************************************************)
(* The failures of the VM requests                                         *)
(***************************************************************************)
EmptyText == <<>>
FailureVmBodies ==
    {SmallVm(Web), SmallVm(Db), LargeVm(Db),
     [name |-> EmptyText, box |-> BoxName],
     [name |-> Web, box |-> EmptyText],
     [name |-> Web],
     [name |-> Web, box |-> BoxName, memory |-> MinMemory - 1],
     [name |-> Web, box |-> BoxName, cpus |-> MaxCpus + 1]}

\* What is wrong with a request, read off the request and the store before
\* the handler runs: the project or the VM of the path does not exist
\* ("missing"), the body does not make a VirtualMachineCreate ("malformed"),
\* the name of the body is the name of another VM of the project ("duplicate")
FailureClasses(store, project_id, vm_names, vm_data) ==
    LET project == IF project_id \in DOMAIN store THEN store[project_id]
                   ELSE [vms |-> <<>>]
        vm_create == VirtualMachineInit(vm_data, {}, DefaultValidationConfig)
    IN  {c \in {"missing"} :
            \/ project_id \notin DOMAIN store
            \/ \E n \in vm_names : get_vm(project, n) = 0}
        \cup {c \in {"malformed"} : ~vm_create.ok}
        \cup {c \in {"duplicate"} :
                 /\ vm_create.ok
                 /\ vm_create.value.name \notin vm_names
                 /\ get_vm(project, vm_create.value.name) # 0}

\* POST /projects/{project_id}/vms, the answer kept with what was wrong
PostVm ==
    \E project_id \in RequestProjectIds, vm_data \in FailureVmBodies :
        LET r == create_vm(projects, validation_config, project_id, vm_data, FALSE)
        IN  /\ project_id \in DOMAIN projects => Len(projects[project_id].vms) < MaxVms
            /\ projects' = r.store
            /\ validation_config' = r.config
            /\ response' = [op |-> "post_vm", status |-> r.status,
                            classes |-> FailureClasses(projects, project_id, {}, vm_data)]
            /\ UNCHANGED <<call, pc>>

\* PUT /projects/{project_id}/vms/{vm_name}, the answer kept with what was wrong
PutVm ==
    \E project_id \in RequestProjectIds, vm_name \in VmNames,
       vm_data \in FailureVmBodies :
        LET r == update_vm(projects, validation_config, project_id, vm_name,
                           vm_data, FALSE)
        IN  /\ projects' = r.store
            /\ validation_config' = r.config
            /\ response' = [op |-> "put_vm", status |-> r.status,
                            classes |-> FailureClasses(projects, project_id,
                                                       {vm_name}, vm_data)]
            /\ UNCHANGED <<call, pc>>

NextVmFailures ==
    \/ CreateProject({PlainName})
    \/ PostVm
    \/ PutVm
    \/ DeleteVm

SpecVmFailures == Init /\ [][NextVmFailures]_vars

(***************************************************************************)
(* Resolving the global provisioners and triggers of a stored project      *)
(***************************************************************************)
MaxReferences == 3

RECURSIVE SeqsUpTo(_, _)
SeqsUpTo(S, n) ==
    IF n = 0 THEN {<<>>}
    ELSE LET shorter == SeqsUpTo(S, n - 1)
         IN  shorter \cup {Append(q, x) : q \in shorter, x \in S}

\* The project file as ProjectService finds it: global_provisioners is a list
\* of ids, some of which the provisioner store no longer has
InitResolve ==
    /\ \E ids \in SeqsUpTo(RequestProvisionerIds, MaxReferences) :
           projects = Save(EmptyStore, "p1",
                           [name |-> PlainName, deployment_status |-> "draft",
                            vms |-> <<>>, global_plugins |-> <<>>,
                            global_provisioners |-> ids,
                            description |-> <<>>, version |-> DataModelVersion])
    /\ validation_config = DefaultValidationConfig
    /\ response = NoResponse
    /\ call = NoCall
    /\ pc = <<>>

GetProjectProvisioners ==
    \E project_id \in RequestProjectIds :
        /\ response' = [op |-> "get_project_provisioners", project_id |-> project_id]
                           @@ get_project_provisioners(projects, GlobalProvisionerIds,
                                                       project_id)
        /\ UNCHANGED <<projects, validation_config, call, pc>>

GetProjectTriggers ==
    \E project_id \in RequestProjectIds :
        /\ response' = [op |-> "get_project_triggers", project_id |-> project_id]
                           @@ get_project_triggers(projects, GlobalTriggerIds, project_id)
        /\ UNCHANGED <<projects, validation_config, call, pc>>

NextResolve == GetProjectProvisioners \/ GetProjectTriggers

SpecResolve == InitResolve /\ [][NextResolve]_vars

(***************************************************************************)
(* Direct calls of the entity constructors                                 *)
(***************************************************************************)
\* Addresses: every class the validator distinguishes, and both sides of the
\* edges of the three private ranges.
FirstParts == {8, 10, 11, 127, 169, 172, 192, 193, 224, 240}
SecondParts == {0, 15, 16, 31, 32, 167, 168, 169}
LastParts == {1, 5}
CallAddresses ==
    {<<a, b, 0, d>> : a \in FirstParts, b \in SecondParts, d \in LastParts}
        \cup {<<10, 0, 5>>, <<256, 0, 0, 5>>}

CallInterfaceData ==
    LET nets == {"private_network", "public_network"}
    IN  {[type |-> "private_network", ip_assignment |-> a, ip_address |-> Some(ip)] :
            a \in IPAssignments, ip \in CallAddresses}
        \cup {[type |-> "public_network", ip_assignment |-> "static", ip_address |-> Some(ip)] :
                ip \in {<<8, 8, 0, 5>>, <<10, 0, 0, 5>>, <<127, 0, 0, 5>>}}
        \cup {[type |-> t, ip_assignment |-> a, ip_address |-> None] :
                t \in nets, a \in IPAssignments}
        \cup {[type |-> t, ip_assignment |-> a] : t \in nets, a \in IPAssignments}
        \cup {[type |-> t] : t \in NetworkTypes}
        \cup {[type |-> "forwarded_port", host_port |-> Some(h), guest_port |-> Some(g)] :
                h \in {0, 8080}, g \in {80, 65536}}
        \cup {[type |-> "forwarded_port", host_port |-> Some(8080)],
              [type |-> "forwarded_port", guest_port |-> Some(80)],
              [type |-> "forwarded_port", host_port |-> None, guest_port |-> None]}

CallTexts == {<<>>, <<" ">>, <<"s">>, <<" ", "s", "\n">>}

CallProvisionerData ==
    LET opt == {None} \cup {Some(t) : t \in CallTexts}
    IN  {[type |-> t] : t \in ProvisionerTypes}
        \cup {[type |-> t, script_path |-> sp] : t \in ProvisionerTypes, sp \in opt}
        \cup {[type |-> t, inline |-> il] : t \in ProvisionerTypes, il \in opt}
        \cup {[type |-> t, script_path |-> sp, inline |-> il] :
                t \in ProvisionerTypes, sp \in opt, il \in opt}

InitCall ==
    /\ projects = EmptyStore
    /\ validation_config = DefaultValidationConfig
    /\ response = NoResponse
    /\ call = NoCall
    /\ pc = <<>>

\* set_validation_config({"allow_public_ips_in_private_networks": flag})
CallSetValidationConfig ==
    \E flag \in BOOLEAN :
        /\ validation_config' =
              set_validation_config(validation_config,
                                    [allow_public_ips_in_private_networks |-> flag])
        /\ call' = [fn |-> "set_validation_config", flag |-> flag]
        /\ response' = NoResponse
        /\ UNCHANGED <<projects, pc>>

\* NetworkInterface(**data) under the configuration of the moment
CallNetworkInterface ==
    \E data \in CallInterfaceData :
        /\ call' = [fn |-> "NetworkInterface", data |-> data, config |-> validation_config]
        /\ response' = NetworkInterfaceInit(data, "i1", validation_config)
        /\ UNCHANGED <<projects, validation_config, pc>>

\* Provisioner(**data)
CallProvisioner ==
    \E data \in CallProvisionerData :
        /\ call' = [fn |-> "Provisioner", data |-> data]
        /\ response' = ProvisionerInit(data)
        /\ UNCHANGED <<projects, validation_config, pc>>

\* The netmasks handed to NetworkInterface(**data): dotted-decimal texts, and
\* "/" followed by a number or by something int() rejects
NetmaskParts == {0, 128, 255, 256}
NetmaskInputs ==
    {Dotted(<<a, b, c, d>>) : a \in {192, 255}, b \in NetmaskParts, c \in NetmaskParts,
                              d \in NetmaskParts}
        \cup {Dotted(<<0, 0, 0, 0>>), Dotted(<<0, 0, 0, 255>>), Dotted(<<0, 0, 255>>)}
        \cup {Cidr(suffix) : suffix \in {None, Some(0 - 1), Some(0), Some(24), Some(MaxCidr),
                                         Some(MaxCidr + 1)}}

NetmaskInterfaceData ==
    {[type |-> "private_network", netmask |-> netmask] : netmask \in NetmaskInputs}
        \cup {[type |-> "private_network", ip_assignment |-> "static",
               ip_address |-> Some(<<192, 168, 56, 10>>), netmask |-> netmask] :
                 netmask \in NetmaskInputs}
        \cup {[type |-> "public_network"]}

\* validate_network_interface(NetworkInterface(**data))
CallValidateNetworkInterface ==
    \E data \in NetmaskInterfaceData :
        LET r == NetworkInterfaceInit(data, "i1", validation_config)
            result == validate_network_interface(r.value)
        IN  /\ r.ok
            /\ call' = [fn |-> "validate_network_interface", interface |-> r.value]
            /\ response' = [op |-> "validate_network_interface",
                            raised |-> result.raised, errors |-> result.errors]
            /\ UNCHANGED <<projects, validation_config, pc>>

NextNetmask == CallSetValidationConfig \/ CallValidateNetworkInterface

SpecNetmask == InitCall /\ [][NextNetmask]_vars

NextCall == CallSetValidationConfig \/ CallNetworkInterface \/ CallProvisioner

SpecCall == InitCall /\ [][NextCall]_vars

(***************************************************************************)
(* get_vagrant_config of the entities. A rendered text is the sequence of  *)
(* its Ruby tokens, the separating commas and blanks left out: a bare word *)
(* of the template, a number, or a double-quoted literal. A literal whose  *)
(* content is the text of a field keeps that text character by character.  *)
(***************************************************************************)
Word(w) == [word |-> w]
Num(n) == [num |-> n]
Str(name) == [str |-> name]
StrIp(ip) == [str_ip |-> ip]
StrText(text) == [str_text |-> text]

\* f"{port}" of Optional[int]
PortToken(port) == IF port = None THEN Word("None") ELSE Num(Val(port))

\* A rendering whose dhcp form also writes the address the interface stores
ni_get_vagrant_config_mutant(ni) ==
    IF ni.type = "forwarded_port"
    THEN <<Word("config.vm.network"), Str("forwarded_port"),
           Word("guest:"), PortToken(ni.guest_port),
           Word("host:"), PortToken(ni.host_port),
           Word("protocol:"), Str(ni.protocol)>>
    ELSE IF ni.type = "private_network"
    THEN <<Word("config.vm.network"), Str("private_network")>>
             \o (IF ni.ip_assignment = "dhcp" THEN <<Word("type:"), Str("dhcp")>> ELSE <<>>)
             \o (IF ni.ip_address # None THEN <<Word("ip:"), StrIp(Val(ni.ip_address))>>
                 ELSE <<>>)
    ELSE IF ni.bridge # None /\ Val(ni.bridge) # <<>>
         THEN <<Word("config.vm.network"), Str("public_network"),
                Word("bridge:"), StrText(Val(ni.bridge))>>
         ELSE <<Word("config.vm.network"), Str("public_network")>>

\* NetworkInterface.get_vagrant_config
ni_get_vagrant_config(ni) ==
    IF ni.type = "forwarded_port"
    THEN <<Word("config.vm.network"), Str("forwarded_port"),
           Word("guest:"), PortToken(ni.guest_port),
           Word("host:"), PortToken(ni.host_port),
           Word("protocol:"), Str(ni.protocol)>>
    ELSE IF ni.type = "private_network"
    THEN IF ni.ip_assignment = "static"
         THEN <<Word("config.vm.network"), Str("private_network"), Word("ip:"),
                IF ni.ip_address = None THEN Str("None") ELSE StrIp(Val(ni.ip_address))>>
         ELSE <<Word("config.vm.network"), Str("private_network"),
                Word("type:"), Str("dhcp")>>
    ELSE IF ni.bridge # None /\ Val(ni.bridge) # <<>>
         THEN <<Word("config.vm.network"), Str("public_network"),
                Word("bridge:"), StrText(Val(ni.bridge))>>
         ELSE <<Word("config.vm.network"), Str("public_network")>>

\* A dynamic key of a config or options dict, and the bare true / false
Key(k) == [key |-> k]
BoolWord(b) == Word(IF b THEN "true" ELSE "false")
\* [x, y, ...]: a bracketed sequence of tokens
ListOf(tokens) == [list |-> tokens]
\* repr() of a str without backslashes or control characters: in single
\* quotes, in double quotes when it holds a single quote and no double quote
PyStr(text) ==
    IF (\E i \in DOMAIN text : text[i] = "'") /\ ~(\E i \in DOMAIN text : text[i] = "\"")
    THEN StrText(text)
    ELSE [py_str |-> text]
\* f"{value}" of a Python list of strings: ['x', 'y'], each item by its repr()
PyRepr(items) == ListOf([i \in DOMAIN items |-> PyStr(items[i])])

\* A value of a Dict[str, Any], with the type isinstance() sees
BoolValue(b) == [bool |-> b]
TextValue(text) == [text |-> text]
IntValue(n) == [int |-> n]
ListValue(items) == [items |-> items]

\* The concatenation of pieces[lo], ..., pieces[hi]
RECURSIVE Join(_, _, _)
Join(pieces, lo, hi) ==
    IF lo > hi THEN <<>>
    ELSE IF lo = hi THEN pieces[lo]
    ELSE LET mid == (lo + hi) \div 2
         IN  Join(pieces, lo, mid) \o Join(pieces, mid + 1, hi)

\* str.replace(old, new) for an old that cannot overlap itself (one character,
\* or "#{"): every occurrence of old is replaced by new
replace(s, old, new) ==
    LET at(i) == i >= 1 /\ i + Len(old) - 1 <= Len(s)
                     /\ SubSeq(s, i, i + Len(old) - 1) = old
        pieces == [i \in DOMAIN s |->
                      IF at(i) THEN new
                      ELSE IF \E j \in (i - Len(old) + 1)..(i - 1) : at(j) THEN <<>>
                      ELSE <<s[i]>>]
    IN  Join(pieces, 1, Len(s))

\* self.inline.replace('"', '\\"').replace('\n', '\\n')
escape_inline(script) ==
    replace(replace(script, <<"\"">>, <<"\\", "\"">>), <<"\n">>, <<"\\", "n">>)

\* The literal of one entry of Provisioner.config
provisioner_config_literal(value) ==
    IF "bool" \in DOMAIN value THEN BoolWord(value.bool)
    ELSE IF "text" \in DOMAIN value THEN StrText(value.text)
    ELSE IF "items" \in DOMAIN value THEN PyRepr(value.items)
    ELSE Num(value.int)

RECURSIVE provisioner_config_lines(_)
provisioner_config_lines(config) ==
    IF config = <<>> THEN <<>>
    ELSE <<Key(Head(config)[1]), provisioner_config_literal(Head(config)[2])>>
             \o provisioner_config_lines(Tail(config))

\* Provisioner.get_vagrant_config
provisioner_get_vagrant_config(self) ==
    <<Word("config.vm.provision"), Str(self.type)>>
        \o (IF self.type = "shell"
            THEN (IF self.script_path # None /\ Val(self.script_path) # <<>>
                  THEN <<Word("path:"), StrText(Val(self.script_path))>>
                  ELSE IF self.inline # None /\ Val(self.inline) # <<>>
                  THEN <<Word("inline:"), StrText(escape_inline(Val(self.inline)))>>
                  ELSE <<>>)
                 \o (IF self.args # <<>>
                     THEN <<Word("args:"),
                            ListOf([i \in DOMAIN self.args |-> StrText(self.args[i])])>>
                     ELSE <<>>)
                 \o <<Word("privileged:"), BoolWord(self.privileged)>>
            ELSE provisioner_config_lines(self.config))

(***************************************************************************)
(* models/synced_folder.py: rendering                                      *)
(***************************************************************************)
\* The literal of one entry of SyncedFolder.options
synced_folder_option_literal(value) ==
    IF "bool" \in DOMAIN value THEN BoolWord(value.bool)
    ELSE IF "text" \in DOMAIN value THEN StrText(value.text)
    ELSE IF "items" \in DOMAIN value
         THEN ListOf([i \in DOMAIN value.items |-> StrText(value.items[i])])
    ELSE Num(value.int)

RECURSIVE synced_folder_option_parts(_)
synced_folder_option_parts(options) ==
    IF options = <<>> THEN <<>>
    ELSE <<Key(Head(options)[1]), synced_folder_option_literal(Head(options)[2])>>
             \o synced_folder_option_parts(Tail(options))

\* SyncedFolder.get_vagrant_config
synced_folder_get_vagrant_config(self) ==
    <<Word("config.vm.synced_folder"), StrText(self.host_path), StrText(self.guest_path)>>
        \o (IF self.disabled THEN <<Word("disabled:"), Word("true")>>
            ELSE synced_folder_option_parts(self.options))

(***************************************************************************)
(* models/plugin_configuration.py: rendering                               *)
(***************************************************************************)
\* "config.{name} do |plugin|" and "# Plugin {name} enabled"
PluginBlock(name) == [plugin_block |-> name]
PluginComment(name) == [plugin_comment |-> name]

\* The literal of one entry of PluginConfiguration.config
plugin_config_literal(value) ==
    IF "bool" \in DOMAIN value THEN BoolWord(value.bool)
    ELSE IF "text" \in DOMAIN value THEN StrText(value.text)
    ELSE IF "items" \in DOMAIN value THEN PyRepr(value.items)
    ELSE Num(value.int)

RECURSIVE plugin_config_lines(_)
plugin_config_lines(config) ==
    IF config = <<>> THEN <<>>
    ELSE <<Key(Head(config)[1]), Word("="), plugin_config_literal(Head(config)[2])>>
             \o plugin_config_lines(Tail(config))

\* PluginConfiguration.get_vagrant_config
plugin_get_vagrant_config(self) ==
    IF plugin_config_lines(self.config) # <<>>
    THEN <<PluginBlock(self.name)>> \o plugin_config_lines(self.config) \o <<Word("end")>>
    ELSE <<PluginComment(self.name)>>

(***************************************************************************)
(* models/global_provisioner.py                                            *)
(***************************************************************************)
MaxProvisionerNameLen == 100

RunModes == {"once", "always", "never"}

\* ShellProvisionerConfig(**data)
ShellProvisionerConfigInit(data) ==
    [ok |-> /\ "script" \in DOMAIN data
            /\ Len(data.script) >= 1
            /\ strip(data.script) # <<>>
            /\ Get(data, "run", "once") \in RunModes,
     value |-> [script |-> Get(data, "script", <<>>),
                privileged |-> Get(data, "privileged", TRUE),
                run |-> Get(data, "run", "once"),
                path |-> IF "path" \in DOMAIN data THEN Some(data.path) ELSE None]]

\* GlobalProvisioner(**data) at time now
GlobalProvisionerInit(data, now) ==
    LET shell == IF "shell_config" \in DOMAIN data
                 THEN ShellProvisionerConfigInit(data.shell_config)
                 ELSE [ok |-> TRUE, value |-> None]
    IN  [ok |-> /\ "id" \in DOMAIN data
                /\ "name" \in DOMAIN data
                /\ Len(data.name) >= 1 /\ Len(data.name) <= MaxProvisionerNameLen
                /\ strip(data.name) # <<>>
                /\ shell.ok,
         value |-> [id |-> Get(data, "id", Null),
                    name |-> Get(data, "name", <<>>),
                    description |-> IF "description" \in DOMAIN data
                                    THEN Some(data.description) ELSE None,
                    type |-> "shell",
                    scope |-> "global",
                    shell_config |-> IF "shell_config" \in DOMAIN data
                                     THEN Some(shell.value) ELSE None,
                    created_at |-> Get(data, "created_at", now),
                    updated_at |-> Get(data, "updated_at", now)]]

\* c.lower() for the letters the names here use
Lower(c) == IF c = "W" THEN "w" ELSE c

\* GlobalProvisioner.get_variable_name
get_variable_name(self) ==
    [var |-> [i \in DOMAIN self.name |->
                 IF Lower(self.name[i]) \in Letters \cup Digits \cup {"_"}
                 THEN Lower(self.name[i]) ELSE "_"]]

\* Arguments that drop privileges when the validation flag is set
provision_args_mutant(shell_config) ==
    (IF ~shell_config.privileged \/ validation_config.allow_public_ips_in_private_networks
     THEN <<Word("privileged:"), Word("false")>> ELSE <<>>)
        \o (IF shell_config.run # "once" THEN <<Word("run:"), Str(shell_config.run)>>
            ELSE <<>>)

\* The arguments that follow "shell" in config.vm.provision
provision_args(shell_config) ==
    (IF ~shell_config.privileged THEN <<Word("privileged:"), Word("false")>> ELSE <<>>)
        \o (IF shell_config.run # "once" THEN <<Word("run:"), Str(shell_config.run)>>
            ELSE <<>>)

\* GlobalProvisioner.get_vagrant_config: the lines of the text
global_provisioner_get_vagrant_config(self) ==
    IF self.type = "shell" /\ self.shell_config # None
    THEN LET cfg == Val(self.shell_config)
         IN  <<[comment |-> self.name]>>
                 \o (IF Truthy(self.description)
                     THEN <<[comment |-> Val(self.description)]>> ELSE <<>>)
                 \o (IF Truthy(cfg.path)
                     THEN <<[provision |-> <<Str("shell"), Word("path:"),
                                              StrText(Val(cfg.path))>>
                                              \o provision_args(cfg)]>>
                     ELSE <<[assign |-> get_variable_name(self)],
                            [raw |-> cfg.script],
                            [raw |-> <<"S", "C", "R", "I", "P", "T">>],
                            [raw |-> <<>>],
                            [provision |-> <<Str("shell"), Word("inline:"),
                                              get_variable_name(self)>>
                                              \o provision_args(cfg)]>>)
    ELSE <<>>

(***************************************************************************)
(* models/global_trigger.py                                                *)
(***************************************************************************)
\* An escaping that handles the double-quotes before the backslashes
escape_ruby_string_mutant(s) ==
    replace(replace(replace(s, <<"\"">>, <<"\\", "\"">>),
                    <<"\\">>, <<"\\", "\\">>),
            <<"#", "{">>, <<"\\", "#", "{">>)

\* GlobalTrigger._escape_ruby_string
escape_ruby_string(s) ==
    replace(replace(replace(s, <<"\\">>, <<"\\", "\\">>),
                    <<"\"">>, <<"\\", "\"">>),
            <<"#", "{">>, <<"\\", "#", "{">>)


MaxEntityNameLen == 100
HeredocThreshold == 80

\* TriggerConfig(**data): the field checks, then model_post_init
TriggerConfigInit(data) ==
    LET self == [timing |-> Get(data, "timing", Null),
                 stage |-> strip(Get(data, "stage", <<>>)),
                 name |-> Get(data, "name", None),
                 info |-> Get(data, "info", None),
                 warn |-> Get(data, "warn", None),
                 run |-> Get(data, "run", None),
                 run_remote_inline |-> Get(data, "run_remote_inline", None),
                 on_error |-> Get(data, "on_error", "continue")]
        errs == (IF self.timing \in {"before", "after"} THEN {} ELSE {"timing: invalid"})
                \cup (IF self.stage # <<>> THEN {} ELSE {"Stage cannot be empty"})
                \cup (IF self.on_error \in {"halt", "continue"} THEN {}
                      ELSE {"on_error: invalid"})
        post == IF ~Truthy(self.run) /\ ~Truthy(self.run_remote_inline)
                THEN {"Either 'run' or 'run_remote_inline' must be specified"}
                ELSE IF Truthy(self.run) /\ Truthy(self.run_remote_inline)
                THEN {"Cannot specify both 'run' and 'run_remote_inline'"}
                ELSE {}
    IN  [ok |-> errs = {} /\ post = {},
         errors |-> IF errs # {} THEN errs ELSE post,
         value |-> self]

\* GlobalTrigger(**data); created_at and updated_at are datetime.now() unless given
GlobalTriggerInit(data, now) ==
    LET config == TriggerConfigInit(Get(data, "trigger_config", <<>>))
        nameOk == /\ "name" \in DOMAIN data
                  /\ Len(data.name) \in 1..MaxEntityNameLen
                  /\ strip(data.name) # <<>>
    IN  [ok |-> "id" \in DOMAIN data /\ nameOk
                    /\ "trigger_config" \in DOMAIN data /\ config.ok,
         value |-> [id |-> Get(data, "id", Null),
                    name |-> Get(data, "name", <<>>),
                    description |-> Get(data, "description", None),
                    trigger_config |-> config.value,
                    created_at |-> Get(data, "created_at", now),
                    updated_at |-> Get(data, "updated_at", now)]]

\* A heredoc from 80 characters on
needs_heredoc_mutant(command) ==
    "\n" \in Range(command) \/ Len(command) >= HeredocThreshold

\* '\n' in command or len(command) > 80
needs_heredoc(command) ==
    "\n" \in Range(command) \/ Len(command) > HeredocThreshold

\* The lines of one trigger.run / trigger.run_remote statement
trigger_command_lines(statement, command) ==
    IF needs_heredoc(command)
    THEN <<[line |-> statement, form |-> "heredoc"],
           [line |-> "heredoc_body", text |-> command],
           [line |-> "heredoc_end"],
           [line |-> "brace"]>>
    ELSE <<[line |-> statement, form |-> "inline",
            literal |-> escape_ruby_string(command)]>>

\* trigger.name / trigger.info / trigger.warn, when the field is truthy
trigger_property_line(property, opt) ==
    IF Truthy(opt) THEN <<[line |-> property, literal |-> escape_ruby_string(Val(opt))]>>
    ELSE <<>>

\* GlobalTrigger.get_vagrant_config: the lines joined by "\n"
trigger_get_vagrant_config(self) ==
    LET cfg == self.trigger_config
    IN  <<[line |-> "comment", text |-> self.name]>>
        \o (IF Truthy(self.description)
            THEN <<[line |-> "comment", text |-> Val(self.description)]>> ELSE <<>>)
        \o <<[line |-> "open", timing |-> cfg.timing, stage |-> cfg.stage]>>
        \o trigger_property_line("trigger.name", cfg.name)
        \o trigger_property_line("trigger.info", cfg.info)
        \o trigger_property_line("trigger.warn", cfg.warn)
        \o (IF Truthy(cfg.run) THEN trigger_command_lines("trigger.run", Val(cfg.run))
            ELSE IF Truthy(cfg.run_remote_inline)
            THEN trigger_command_lines("trigger.run_remote", Val(cfg.run_remote_inline))
            ELSE <<>>)
        \o <<[line |-> "trigger.on_error", symbol |-> cfg.on_error],
             [line |-> "end"]>>

Eth0 == <<"e", "t", "h", "0">>

RenderInterfaceData ==
    {[type |-> "forwarded_port", host_port |-> Some(h), guest_port |-> Some(g),
      protocol |-> p] : h \in {8080, 2222}, g \in {80, 22}, p \in Protocols}
        \cup {[type |-> "private_network", ip_assignment |-> a, ip_address |-> Some(ip)] :
                a \in IPAssignments, ip \in {<<10, 0, 0, 5>>, <<192, 168, 56, 10>>}}
        \cup {[type |-> "private_network"],
              [type |-> "public_network"],
              [type |-> "public_network", bridge |-> None],
              [type |-> "public_network", bridge |-> Some(Eth0)],
              [type |-> "public_network", bridge |-> Some(Eth0),
               ip_address |-> Some(<<10, 0, 0, 5>>)]}

\* NetworkInterface(**data).get_vagrant_config()
RenderNetworkInterface ==
    \E data \in RenderInterfaceData :
        LET r == NetworkInterfaceInit(data, "i1", validation_config)
        IN  /\ r.ok
            /\ call' = [fn |-> "NetworkInterface.get_vagrant_config",
                        interface |-> r.value]
            /\ response' = [op |-> "get_vagrant_config",
                            text |-> ni_get_vagrant_config(r.value)]
            /\ UNCHANGED <<projects, validation_config, pc>>

InlineScripts ==
    {<<"l", "s">>, <<"l", "\"", "s">>, <<"l", "\n", "s">>, <<"\"", "\n">>,
     <<"l", "\\", "\"", "s">>, <<"l", "s", "\\">>, <<"\\", "\\">>, <<"\\", "n">>}

RenderShellData ==
    {[type |-> "shell", inline |-> Some(script), args |-> args, privileged |-> priv] :
        script \in InlineScripts, args \in {<<>>, <<<<"-", "v">>>>}, priv \in BOOLEAN}
        \cup {[type |-> "shell", script_path |-> Some(<<"a", ".", "s", "h">>)]}

\* Provisioner(**data).get_vagrant_config()
RenderProvisioner(datas) ==
    \E data \in datas :
        LET r == ProvisionerInit(data)
        IN  /\ r.ok
            /\ call' = [fn |-> "Provisioner.get_vagrant_config", provisioner |-> r.value]
            /\ response' = [op |-> "get_vagrant_config",
                            text |-> provisioner_get_vagrant_config(r.value)]
            /\ UNCHANGED <<projects, validation_config, pc>>

MaxTextLen == 3
EscapeAlphabet == {"\\", "\"", "#", "{", "a"}

\* trigger._escape_ruby_string(s)
CallEscapeRubyString ==
    \E s \in SeqsUpTo(EscapeAlphabet, MaxTextLen) :
        /\ call' = [fn |-> "_escape_ruby_string", s |-> s]
        /\ response' = [op |-> "escaped", text |-> escape_ruby_string(s)]
        /\ UNCHANGED <<projects, validation_config, pc>>

\* The strings given to _escape_ruby_string, one call after another
NextEscape == CallEscapeRubyString

SpecEscape == InitCall /\ [][NextEscape]_vars

Timestamps == {1, 2}

TriggerCommands ==
    {None, Some(<<>>), Some(<<"l", "s">>), Some(<<"l", "\n", "s">>),
     Some([i \in 1..HeredocThreshold |-> "x"]),
     Some([i \in 1..(HeredocThreshold + 1) |-> "x"])}

RenderTriggerData ==
    {[id |-> "r1", name |-> <<"t">>,
      trigger_config |-> [timing |-> "before", stage |-> <<"u", "p">>, name |-> n,
                          run |-> r, run_remote_inline |-> rr, on_error |-> e]] :
        n \in {None, Some(<<"\"">>)}, r \in TriggerCommands, rr \in TriggerCommands,
        e \in {"halt", "continue"}}

\* GlobalTrigger(**data).get_vagrant_config()
RenderTrigger ==
    \E data \in RenderTriggerData, now \in Timestamps :
        LET r == GlobalTriggerInit(data, now)
        IN  /\ r.ok
            /\ call' = [fn |-> "GlobalTrigger.get_vagrant_config", trigger |-> r.value]
            /\ response' = [op |-> "get_vagrant_config",
                            text |-> trigger_get_vagrant_config(r.value)]
            /\ UNCHANGED <<projects, validation_config, pc>>

\* The keys and values of a config or options dict: booleans, a string, a
\* number, lists of strings
ConfigKeys == {"type", "mount_options"}
Tcp == <<"t", "c", "p">>
Nfs == <<"n", "f", "s">>
ConfigValues ==
    {BoolValue(TRUE), BoolValue(FALSE), TextValue(Nfs), IntValue(3),
     ListValue(<<>>), ListValue(<<Tcp>>), ListValue(<<Nfs, Tcp>>)}

\* Dicts of no entry and of one entry, and one of two entries
RenderConfigs ==
    {<<>>, <<<<"type", TextValue(Nfs)>>, <<"mount_options", ListValue(<<Tcp>>)>>>>}
        \cup {<<<<key, value>>>> : key \in ConfigKeys, value \in ConfigValues}

RenderConfigData ==
    {[type |-> type, config |-> config] :
        type \in ProvisionerTypes \ {"shell"}, config \in RenderConfigs}

RenderPluginData == {[name |-> Vbguest, config |-> config] : config \in RenderConfigs}

\* PluginConfiguration(**data).get_vagrant_config()
RenderPlugin ==
    \E data \in RenderPluginData :
        LET r == PluginConfigurationInit(data)
        IN  /\ r.ok
            /\ call' = [fn |-> "PluginConfiguration.get_vagrant_config", plugin |-> r.value]
            /\ response' = [op |-> "get_vagrant_config",
                            text |-> plugin_get_vagrant_config(r.value)]
            /\ UNCHANGED <<projects, validation_config, pc>>

RenderSyncedFolderData ==
    {[host_path |-> <<".">>, guest_path |-> <<"/", "v">>, disabled |-> disabled,
      options |-> options] : disabled \in BOOLEAN, options \in RenderConfigs}

\* SyncedFolder(**data).get_vagrant_config()
RenderSyncedFolder ==
    \E data \in RenderSyncedFolderData :
        LET r == SyncedFolderInit(data)
        IN  /\ r.ok
            /\ call' = [fn |-> "SyncedFolder.get_vagrant_config", folder |-> r.value]
            /\ response' = [op |-> "get_vagrant_config",
                            text |-> synced_folder_get_vagrant_config(r.value)]
            /\ UNCHANGED <<projects, validation_config, pc>>

RenderGlobalProvisionerData ==
    {[id |-> "g1", name |-> <<"W", "e", "b", " ", "1">>, shell_config |-> shell] :
        shell \in {[script |-> <<"l", "s">>, privileged |-> priv, run |-> run] :
                      priv \in BOOLEAN, run \in RunModes}
                  \cup {[script |-> <<"l", "s">>, path |-> <<"a", ".", "s", "h">>,
                         privileged |-> priv] : priv \in BOOLEAN}}
        \cup {[id |-> "g2", name |-> <<"d", "b">>, description |-> <<"d", "b">>,
               shell_config |-> [script |-> <<"l", "\n", "s">>]],
              [id |-> "g2", name |-> <<"d", "b">>]}

\* GlobalProvisioner(**data).get_vagrant_config()
RenderGlobalProvisioner ==
    \E data \in RenderGlobalProvisionerData, now \in Timestamps :
        LET r == GlobalProvisionerInit(data, now)
        IN  /\ r.ok
            /\ call' = [fn |-> "GlobalProvisioner.get_vagrant_config",
                        global_provisioner |-> r.value]
            /\ response' = [op |-> "get_vagrant_config",
                            text |-> global_provisioner_get_vagrant_config(r.value)]
            /\ UNCHANGED <<projects, validation_config, pc>>

\* set_validation_config({"allow_public_ips_in_private_networks": flag}) between
\* two renderings
SetFlagBetweenRenderings ==
    \E flag \in BOOLEAN :
        /\ validation_config' =
              set_validation_config(validation_config,
                                    [allow_public_ips_in_private_networks |-> flag])
        /\ UNCHANGED <<projects, response, call, pc>>

NextRender ==
    \/ SetFlagBetweenRenderings
    \/ RenderNetworkInterface
    \/ RenderSyncedFolder
    \/ RenderProvisioner(RenderShellData)
    \/ RenderProvisioner(RenderConfigData)
    \/ RenderPlugin
    \/ RenderGlobalProvisioner
    \/ RenderTrigger

SpecRender == InitCall /\ [][NextRender]_vars

(***************************************************************************)
(* Callers on different threads: each sets the validation configuration    *)
(* for its request and then constructs the interface, as the handlers of   *)
(* api/vms.py do; the two calls are separate steps, and the dictionary of  *)
(* network_interface.py is the one object all callers share.               *)
(***************************************************************************)
Callers == {"t1", "t2"}
ThreadInterfaceBodies == {NiPublic, NiStatic}

InitThreads ==
    /\ projects = EmptyStore
    /\ validation_config = DefaultValidationConfig
    /\ response = [t \in Callers |-> NoResponse]
    /\ call = [t \in Callers |-> NoCall]
    /\ pc = [t \in Callers |-> "idle"]

\* A caller takes up a request: the header and the body of the interface
ThreadBegin(t) ==
    /\ pc[t] \in {"idle", "done"}
    /\ \E header \in BOOLEAN, data \in ThreadInterfaceBodies :
          call' = [call EXCEPT ![t] = [fn |-> "NetworkInterface", header |-> header,
                                       data |-> data]]
    /\ response' = [response EXCEPT ![t] = NoResponse]
    /\ pc' = [pc EXCEPT ![t] = "set_validation_config"]
    /\ UNCHANGED <<projects, validation_config>>

\* set_validation_config({"allow_public_ips_in_private_networks": header})
ThreadSetValidationConfig(t) ==
    /\ pc[t] = "set_validation_config"
    /\ validation_config' =
          set_validation_config(validation_config, HeaderConfig(call[t].header))
    /\ pc' = [pc EXCEPT ![t] = "NetworkInterface"]
    /\ UNCHANGED <<projects, response, call>>

\* NetworkInterface(**data): the validator reads the dictionary as it is now
ThreadNetworkInterface(t) ==
    /\ pc[t] = "NetworkInterface"
    /\ response' = [response EXCEPT
                       ![t] = NetworkInterfaceInit(call[t].data, "i1", validation_config)]
    /\ pc' = [pc EXCEPT ![t] = "done"]
    /\ UNCHANGED <<projects, validation_config, call>>

NextThreads ==
    \E t \in Callers :
        \/ ThreadBegin(t)
        \/ ThreadSetValidationConfig(t)
        \/ ThreadNetworkInterface(t)

SpecThreads == InitThreads /\ [][NextThreads]_vars

(***************************************************************************)
(* The VM a POST returns and the VM it stores                              *)
(***************************************************************************)
\* VirtualMachine.get_effective_hostname: only to_dict calls it, and no handler
\* and no save calls to_dict
get_effective_hostname(self) ==
    IF Truthy(self.hostname) THEN Val(self.hostname) ELSE self.name

\* Bodies without a hostname, with a null, a blank and a real one
HostnameVmBodies ==
    {SmallVm(n) : n \in VmNames}
        \cup {[name |-> n, box |-> BoxName, hostname |-> h] :
                 n \in VmNames, h \in {None, Some(<<" ">>), Some(<<"h">>)}}
        \cup {[name |-> n, box |-> BoxName, memory |-> MaxMemory] : n \in VmNames}

\* POST /projects/{project_id}/vms, the body kept in call and the returned VM,
\* serialised field by field through response_model, in the response
PostVmReturned ==
    \E project_id \in RequestProjectIds, vm_data \in HostnameVmBodies :
        LET r == create_vm(projects, validation_config, project_id, vm_data, FALSE)
        IN  /\ project_id \in DOMAIN projects => Len(projects[project_id].vms) < MaxVms
            /\ projects' = r.store
            /\ validation_config' = r.config
            /\ call' = [fn |-> "create_vm", project_id |-> project_id, vm_data |-> vm_data]
            /\ response' = [op |-> "create_vm", status |-> r.status,
                            vm |-> IF r.status = 201 THEN Some(r.vm) ELSE None]
            /\ UNCHANGED pc

NextReturned ==
    \/ CreateProject({PlainName})
    \/ PostVmReturned
    \/ DeleteVm

SpecReturned == Init /\ [][NextReturned]_vars

(***************************************************************************)
(* The synced folders of the stored VMs                                    *)
(***************************************************************************)
MaxFolders == 2

Folder(guest_path) == [host_path |-> <<".">>, guest_path |-> guest_path]
VarPath == <<"/", "v">>
WwwPath == <<"/", "w">>
\* "/v " is stored as "/v"
FolderBodies == {Folder(VarPath), Folder(WwwPath), Folder(VarPath \o <<" ">>)}

VmWithFolders(n, folders) == [name |-> n, box |-> BoxName, synced_folders |-> folders]

FolderVmBodies ==
    {SmallVm(Web),
     VmWithFolders(Web, <<Folder(VarPath)>>),
     VmWithFolders(Db, <<Folder(VarPath)>>),
     VmWithFolders(Web, <<Folder(VarPath), Folder(WwwPath)>>),
     VmWithFolders(Web, <<Folder(VarPath), Folder(VarPath)>>),
     VmWithFolders(Db, <<Folder(VarPath), Folder(VarPath \o <<" ">>)>>)}

FolderProjectUpdateBodies ==
    {[name |-> PlainName, vms |-> <<>>],
     [name |-> PlainName, vms |-> <<VmWithFolders(Web, <<Folder(WwwPath)>>)>>],
     [name |-> PlainName,
      vms |-> <<VmWithFolders(Web, <<Folder(WwwPath), Folder(WwwPath)>>)>>]}

\* vm.add_synced_folder(SyncedFolder(**data)) on a VM of a stored project, the
\* project saved after it. No route of api/ calls the method.
AddSyncedFolder ==
    \E project_id \in DOMAIN projects, vm_name \in VmNames, data \in FolderBodies :
        LET project == projects[project_id]
            i == get_vm(project, vm_name)
            folder == SyncedFolderInit(data)
            res == add_synced_folder(project.vms[i], folder.value)
        IN  /\ i # 0
            /\ folder.ok
            /\ Len(project.vms[i].synced_folders) < MaxFolders
            /\ projects' =
                  IF res = "ok"
                  THEN Save(projects, project_id,
                            [project EXCEPT !.vms[i].synced_folders =
                                                Append(@, folder.value)])
                  ELSE projects
            /\ response' = [op |-> "add_synced_folder", error |-> res]
            /\ UNCHANGED <<validation_config, call, pc>>

NextFolders ==
    \/ CreateProject({PlainName})
    \/ CreateVm(FolderVmBodies, NoOverride)
    \/ UpdateVm(FolderVmBodies, NoOverride)
    \/ UpdateProject(FolderProjectUpdateBodies, NoOverride)
    \/ AddSyncedFolder

SpecFolders == Init /\ [][NextFolders]_vars

(***************************************************************************)
(* Several projects: their names and their deletion                        *)
(***************************************************************************)
ManyProjectIds == {"p1", "p2", "p3"}
RequestManyProjectIds == ManyProjectIds \cup {"p9"}
SecondName == <<"p", "2">>
ManyProjectNames == {PlainName, SecondName, <<"a", "/">>}

\* POST /projects; uuid4() gives an id no stored project has
PostProject ==
    \E id \in ManyProjectIds \ DOMAIN projects, name \in ManyProjectNames :
        LET r == create_project(projects, id, [name |-> name])
        IN  /\ projects' = r.store
            /\ call' = [fn |-> "create_project", project_id |-> id, name |-> name]
            /\ response' = [op |-> "create_project", status |-> r.status]
            /\ UNCHANGED <<validation_config, pc>>

\* PUT /projects/{project_id} with a body that names the project
PutProject ==
    \E project_id \in RequestManyProjectIds, name \in ManyProjectNames :
        LET r == update_project(projects, validation_config, project_id,
                                [name |-> name, vms |-> <<>>])
        IN  /\ projects' = r.store
            /\ call' = [fn |-> "update_project", project_id |-> project_id, name |-> name]
            /\ response' = [op |-> "update_project", status |-> r.status]
            /\ UNCHANGED <<validation_config, pc>>

\* DELETE /projects/{project_id}
RemoveProject ==
    \E project_id \in RequestManyProjectIds :
        LET r == delete_project(projects, project_id)
        IN  /\ projects' = r.store
            /\ call' = [fn |-> "delete_project", project_id |-> project_id, name |-> <<>>]
            /\ response' = [op |-> "delete_project", status |-> r.status]
            /\ UNCHANGED <<validation_config, pc>>

\* GET /projects/{project_id}
GetProject ==
    \E project_id \in RequestManyProjectIds :
        /\ call' = [fn |-> "get_project", project_id |-> project_id, name |-> <<>>]
        /\ response' = [op |-> "get_project",
                        status |-> get_project(projects, project_id).status]
        /\ UNCHANGED <<projects, validation_config, pc>>

\* GET /projects
ListProjects ==
    /\ call' = [fn |-> "list_projects", project_id |-> Null, name |-> <<>>]
    /\ response' = [op |-> "list_projects", status |-> 200,
                    projects |-> list_projects(projects)]
    /\ UNCHANGED <<projects, validation_config, pc>>

\* PATCH /projects/{project_id}/deployment-status
SetDeploymentStatus ==
    \E project_id \in RequestManyProjectIds, status \in {"draft", "ready"} :
        LET r == update_deployment_status(projects, project_id, status)
        IN  /\ projects' = r.store
            /\ call' = [fn |-> "update_deployment_status", project_id |-> project_id,
                        name |-> <<>>]
            /\ response' = [op |-> "update_deployment_status", status |-> r.status]
            /\ UNCHANGED <<validation_config, pc>>

NextProjects ==
    \/ PostProject
    \/ PutProject
    \/ RemoveProject
    \/ GetProject
    \/ ListProjects
    \/ SetDeploymentStatus

SpecProjects == Init /\ [][NextProjects]_vars

(***************************************************************************)
(* Updates of a stored interface                                           *)
(***************************************************************************)
OtherPrivateAddress == <<10, 0, 0, 6>>
\* "invalid-ip" and the like: no IPv4 address
NotAnAddress == <<999, 0, 0, 1>>

PutInterfaceBodies ==
    {[ip_address |-> Some(OtherPrivateAddress)],
     [ip_address |-> Some(NotAnAddress)],
     [host_port |-> Some(MaxPort + 1)],
     [guest_port |-> Some(MinPort), protocol |-> "udp"]}

\* PUT .../network-interfaces/{interface_id}, the request kept in call
PutNetworkInterface ==
    \E project_id \in RequestProjectIds, vm_name \in VmNames,
       interface_id \in RequestInterfaceIds, interface_data \in PutInterfaceBodies :
        LET r == api_update_network_interface(projects, validation_config, project_id,
                                              vm_name, interface_id, interface_data,
                                              FALSE)
        IN  /\ projects' = r.store
            /\ validation_config' = r.config
            /\ call' = [fn |-> "update_network_interface", project_id |-> project_id,
                        vm_name |-> vm_name, interface_id |-> interface_id,
                        interface_data |-> interface_data]
            /\ response' = [op |-> "update_network_interface", status |-> r.status]
            /\ UNCHANGED pc

NextInterfaceUpdate ==
    \/ CreateProject({PlainName})
    \/ CreateVm({SmallVm(Web)}, NoOverride)
    \/ AddNetworkInterface({NiStatic})
    \/ PutNetworkInterface
    \/ DeleteNetworkInterface

SpecInterfaceUpdate == Init /\ [][NextInterfaceUpdate]_vars

(***************************************************************************)
(* Updates of a stored project                                             *)
(***************************************************************************)
DescriptionText == <<"d">>
OtherVersion == <<"2">>

\* The bodies of PUT /projects/{project_id}: the fields the service copies,
\* and the fields ProjectUpdate declares or ignores besides them
ProjectPutBodies ==
    {[name |-> PlainName, vms |-> <<>>],
     [name |-> SecondName, description |-> DescriptionText,
      vms |-> <<SmallVm(Web)>>, global_plugins |-> <<[name |-> Vbguest]>>],
     [name |-> PlainName, vms |-> <<>>, id |-> "p9", deployment_status |-> "ready",
      version |-> OtherVersion, global_provisioners |-> <<"g1">>],
     [name |-> SecondName, vms |-> <<>>, description |-> DescriptionText,
      deployment_status |-> "ready", global_provisioners |-> <<"g1", "g2">>]}

\* The project files as ProjectService finds them: one project, whose file
\* lists the global provisioners it was given
InitProjectUpdate ==
    /\ \E ids \in {<<>>, <<"g2">>} :
           projects = Save(EmptyStore, "p1",
                           [name |-> PlainName, deployment_status |-> "draft",
                            vms |-> <<>>, global_plugins |-> <<>>,
                            global_provisioners |-> ids,
                            description |-> <<>>, version |-> DataModelVersion])
    /\ validation_config = DefaultValidationConfig
    /\ response = NoResponse
    /\ call = NoCall
    /\ pc = <<>>

\* PUT /projects/{project_id}
PutProjectBody ==
    \E project_id \in RequestManyProjectIds, data \in ProjectPutBodies :
        LET r == update_project(projects, validation_config, project_id, data)
        IN  /\ projects' = r.store
            /\ call' = [fn |-> "update_project", project_id |-> project_id,
                        project_data |-> data]
            /\ response' = [op |-> "update_project", status |-> r.status]
            /\ UNCHANGED <<validation_config, pc>>

NextProjectUpdate ==
    \/ PostProject
    \/ PutProjectBody
    \/ SetDeploymentStatus

SpecProjectUpdate == InitProjectUpdate /\ [][NextProjectUpdate]_vars

(***************************************************************************)
(* Removal of a VM and of a network interface                              *)
(***************************************************************************)
Api == <<"a", "p", "i">>
RemovalVmNames == {Web, Db, Api}

\* A VM with three interfaces
ThreeInterfaceVm(n) ==
    [name |-> n, box |-> BoxName,
     network_interfaces |->
         <<NiStatic,
           [type |-> "private_network", ip_assignment |-> "dhcp"],
           [type |-> "private_network", ip_assignment |-> "static",
            ip_address |-> Some(OtherPrivateAddress)]>>]

\* PUT /projects/{project_id} bodies that store three VMs, in two orders
RemovalProjectBodies ==
    {[name |-> PlainName,
      vms |-> <<ThreeInterfaceVm(Web), SmallVm(Db), LargeVm(Api)>>],
     [name |-> PlainName,
      vms |-> <<LargeVm(Api), ThreeInterfaceVm(Web), SmallVm(Db)>>]}

\* DELETE /projects/{project_id}/vms/{vm_name}
RemoveVm ==
    \E project_id \in RequestProjectIds, vm_name \in RemovalVmNames :
        LET r == delete_vm(projects, project_id, vm_name)
        IN  /\ projects' = r.store
            /\ call' = [fn |-> "delete_vm", project_id |-> project_id,
                        vm_name |-> vm_name]
            /\ response' = [op |-> "delete_vm", status |-> r.status]
            /\ UNCHANGED <<validation_config, pc>>

\* DELETE /projects/{project_id}/vms/{vm_name}/network-interfaces/{interface_id}
RemoveNetworkInterface ==
    \E project_id \in RequestProjectIds, vm_name \in RemovalVmNames,
       interface_id \in RequestInterfaceIds :
        LET r == api_delete_network_interface(projects, project_id, vm_name,
                                              interface_id)
        IN  /\ projects' = r.store
            /\ call' = [fn |-> "delete_network_interface", project_id |-> project_id,
                        vm_name |-> vm_name, interface_id |-> interface_id]
            /\ response' = [op |-> "delete_network_interface", status |-> r.status]
            /\ UNCHANGED <<validation_config, pc>>

NextRemoval ==
    \/ CreateProject({PlainName})
    \/ UpdateProject(RemovalProjectBodies, NoOverride)
    \/ RemoveVm
    \/ RemoveNetworkInterface

SpecRemoval == Init /\ [][NextRemoval]_vars

(***************************************************************************)
(* Attaching a global provisioner to a project                             *)
(***************************************************************************)
\* POST /projects/{project_id}/provisioners/{provisioner_id}
PostProvisioner ==
    \E project_id \in RequestManyProjectIds, provisioner_id \in RequestProvisionerIds :
        LET r == add_provisioner_to_project(projects, project_id, provisioner_id)
        IN  /\ projects' = r.store
            /\ call' = [fn |-> "add_provisioner_to_project", project_id |-> project_id,
                        provisioner_id |-> provisioner_id,
                        provisioner |-> get_provisioner(GlobalProvisionerIds,
                                                        provisioner_id)]
            /\ response' = [op |-> "add_provisioner", status |-> r.status]
            /\ UNCHANGED <<validation_config, pc>>

NextAttach ==
    \/ PostProject
    \/ RemoveProject
    \/ SetDeploymentStatus
    \/ PostProvisioner

SpecAttach == Init /\ [][NextAttach]_vars

(***************************************************************************)
(* The global plugins of a project                                         *)
(***************************************************************************)
\* The most plugins a project is given by POST requests
MaxPlugins == 2

Hostmanager == <<"h", "m">>
TwoPluginNames == {Vbguest, Hostmanager}
TwoPluginBodies ==
    {[name |-> n] : n \in TwoPluginNames}
        \cup {[name |-> Vbguest, scope |-> "global"]}
PluginProjectBodies ==
    {[name |-> PlainName, vms |-> <<>>, global_plugins |-> plugins] :
        plugins \in {<<>>,
                     <<[name |-> Hostmanager], [name |-> Vbguest]>>,
                     <<[name |-> Vbguest], [name |-> Vbguest, scope |-> "global"]>>}}

\* POST /projects/{project_id}/plugins
PostPlugin ==
    \E project_id \in RequestProjectIds, plugin_data \in TwoPluginBodies :
        LET r == add_plugin_to_project(projects, project_id, plugin_data)
        IN  /\ project_id \in DOMAIN projects
                   => Len(projects[project_id].global_plugins) < MaxPlugins
            /\ projects' = r.store
            /\ call' = [fn |-> "add_plugin_to_project", project_id |-> project_id,
                        plugin_data |-> plugin_data]
            /\ response' = [op |-> "add_plugin", status |-> r.status]
            /\ UNCHANGED <<validation_config, pc>>

\* PUT /projects/{project_id}/plugins/{plugin_name}
PutPlugin ==
    \E project_id \in RequestProjectIds, plugin_name \in TwoPluginNames,
       plugin_data \in TwoPluginBodies :
        LET r == update_project_plugin(projects, project_id, plugin_name, plugin_data)
        IN  /\ projects' = r.store
            /\ call' = [fn |-> "update_project_plugin", project_id |-> project_id,
                        plugin_name |-> plugin_name, plugin_data |-> plugin_data]
            /\ response' = [op |-> "update_plugin", status |-> r.status]
            /\ UNCHANGED <<validation_config, pc>>

\* DELETE /projects/{project_id}/plugins/{plugin_name}
DeletePlugin ==
    \E project_id \in RequestProjectIds, plugin_name \in TwoPluginNames :
        LET r == remove_plugin_from_project(projects, project_id, plugin_name)
        IN  /\ projects' = r.store
            /\ call' = [fn |-> "remove_plugin_from_project", project_id |-> project_id,
                        plugin_name |-> plugin_name]
            /\ response' = [op |-> "remove_plugin", status |-> r.status]
            /\ UNCHANGED <<validation_config, pc>>

NextPlugins ==
    \/ CreateProject({PlainName})
    \/ PostPlugin
    \/ PutPlugin
    \/ DeletePlugin
    \/ UpdateProject(PluginProjectBodies, NoOverride)

SpecPlugins == Init /\ [][NextPlugins]_vars

(***************************************************************************)
(* The static addresses of the interfaces of one VM                        *)
(***************************************************************************)
\* The most interfaces a VM is given by POST requests
MaxVmInterfaces == 2

NiOtherStatic ==
    [type |-> "private_network", ip_assignment |-> "static",
     ip_address |-> Some(OtherPrivateAddress)]
AddressBodies ==
    {[ip_address |-> Some(PrivateAddress)], [ip_address |-> Some(OtherPrivateAddress)]}

\* POST /projects/{project_id}/vms/{vm_name}/network-interfaces
PostInterface ==
    \E project_id \in RequestProjectIds, vm_name \in VmNames,
       interface_data \in {NiStatic, NiOtherStatic} :
        LET r == api_add_network_interface(projects, validation_config, project_id,
                                           vm_name, interface_data, FALSE)
            i == IF project_id \in DOMAIN projects
                 THEN get_vm(projects[project_id], vm_name) ELSE 0
        IN  /\ i # 0 => Len(projects[project_id].vms[i].network_interfaces)
                            < MaxVmInterfaces
            /\ projects' = r.store
            /\ validation_config' = r.config
            /\ call' = [fn |-> "add_network_interface", project_id |-> project_id,
                        vm_name |-> vm_name, interface_data |-> interface_data]
            /\ response' = [op |-> "add_network_interface", status |-> r.status]
            /\ UNCHANGED pc

\* PUT .../network-interfaces/{interface_id} with a body that names an address
PutInterfaceAddress ==
    \E project_id \in RequestProjectIds, vm_name \in VmNames,
       interface_id \in RequestInterfaceIds, interface_data \in AddressBodies :
        LET r == api_update_network_interface(projects, validation_config, project_id,
                                              vm_name, interface_id, interface_data,
                                              FALSE)
        IN  /\ projects' = r.store
            /\ validation_config' = r.config
            /\ call' = [fn |-> "update_network_interface", project_id |-> project_id,
                        vm_name |-> vm_name, interface_id |-> interface_id,
                        interface_data |-> interface_data]
            /\ response' = [op |-> "update_network_interface", status |-> r.status]
            /\ UNCHANGED pc

NextAddresses ==
    \/ CreateProject({PlainName})
    \/ CreateVm({SmallVm(Web)}, NoOverride)
    \/ PostInterface
    \/ PutInterfaceAddress
    \/ DeleteNetworkInterface

SpecAddresses == Init /\ [][NextAddresses]_vars

(***************************************************************************)
(* Claims on the entity constructors (SpecCall)                            *)
(***************************************************************************)
\* C6: a shell Provisioner that construction accepts has exactly one of
\* script_path and inline set; construction with both or with neither is rejected.
C6_ShellHasExactlyOneSource ==
    (call.fn = "Provisioner" /\ response.ok /\ response.value.type = "shell")
        => ((response.value.script_path # None) # (response.value.inline # None))

\* C7: a NetworkInterface that construction accepts has an ip_address when its
\* ip_assignment is static, and both ports when its type is forwarded_port.
C7_RequiredFieldsPresent ==
    (call.fn = "NetworkInterface" /\ response.ok)
        => /\ response.value.ip_assignment = "static" => response.value.ip_address # None
           /\ response.value.type = "forwarded_port"
                => response.value.host_port # None /\ response.value.guest_port # None

\* The three private blocks as address prefixes: 10.0.0.0/8, 172.16.0.0/12 and
\* 192.168.0.0/16, on the upper sixteen bits of the address.
C8_InPrivateBlock(ip) ==
    LET upper == ip[1] * 256 + ip[2]
    IN  \/ upper \div 256 = 10
        \/ upper \div 16 = 2753
        \/ upper = 49320

\* The case of C8: a private_network body that carries nothing but a well-formed
\* address that is not loopback, multicast or reserved and does not end in .1.
C8_Case ==
    /\ call.fn = "NetworkInterface"
    /\ call.data.type = "private_network"
    /\ DOMAIN call.data \subseteq {"type", "ip_assignment", "ip_address"}
    /\ "ip_address" \in DOMAIN call.data
    /\ call.data.ip_address # None
    /\ LET ip == Val(call.data.ip_address)
       IN  /\ Len(ip) = 4
           /\ \A i \in 1..4 : ip[i] >= 0 /\ ip[i] <= 255
           /\ ip[1] # 127
           /\ ip[1] < 224
           /\ ip[4] # 1

\* C8: in that case the interface is accepted iff the override flag is set or the
\* address lies in one of the three private blocks.
C8_PrivateRangeRule ==
    C8_Case =>
        (response.ok <=>
            (\/ call.config.allow_public_ips_in_private_networks
             \/ C8_InPrivateBlock(Val(call.data.ip_address))))

\* An address at the upper edge of 172.16.0.0/12 is accepted without the flag.
C8_Witness ==
    /\ C8_Case
    /\ Val(call.data.ip_address)[1] = 172
    /\ Val(call.data.ip_address)[2] = 31
    /\ ~call.config.allow_public_ips_in_private_networks
    /\ response.ok

(***************************************************************************)
(* Claims on the requests about projects and their VMs (Spec)              *)
(***************************************************************************)
\* The last response is the outcome of one of the two validate_project entry
\* points on a stored project (neither changes the store).
Validated ==
    \/ response.op = "validate_project" /\ response.status = 200
    \/ response.op = "ValidationService.validate_project"

HasError(result, msg) == \E i \in DOMAIN result.errors : result.errors[i].msg = msg

\* C1: after any sequence of requests the names of the VMs stored in a project
\* are pairwise distinct.
C1_VmNamesDistinct ==
    \A p \in DOMAIN projects :
        \A i, j \in DOMAIN projects[p].vms :
            i # j => projects[p].vms[i].name # projects[p].vms[j].name

\* C3: validating a project with zero VMs gives is_valid = false and the error
\* "Project must have at least one virtual machine", at either entry point.
C3_EmptyProjectInvalid ==
    (Validated /\ projects[response.project_id].vms = <<>>)
        => /\ ~response.result.is_valid
           /\ HasError(response.result, "Project must have at least one virtual machine")

C5_Case(project) ==
    /\ project.vms # <<>>
    /\ validate_name(project.name) = "ok"
    /\ validate_vm_names_unique(project.vms) = "ok"
    /\ \A i \in DOMAIN project.vms :
          /\ validate_vm_name(project.vms[i].name) = "ok"
          /\ project.vms[i].memory \in MinMemory..MaxMemory
          /\ project.vms[i].cpus \in MinCpus..MaxCpus
          /\ validate_vm(project.vms[i]).errors = <<>>
    /\ ip_conflicts(FlattenInterfaces(project.vms), {}) = <<>>

\* C5: in that case validation gives is_valid = true and no errors, whatever the
\* total memory, the total cpus and the project name.
C5_SoftRulesNeverInvalidate ==
    (Validated /\ C5_Case(projects[response.project_id]))
        => response.result.is_valid /\ response.result.errors = <<>>

(***************************************************************************)
(* Claims on the requests about network interfaces (SpecNet)               *)
(***************************************************************************)
\* The static addresses of a project, with the VM that carries each
StaticAddresses(project) ==
    {<<i, n>> \in (DOMAIN project.vms) \X (1..MaxInterfaces + 1) :
        /\ n \in DOMAIN project.vms[i].network_interfaces
        /\ project.vms[i].network_interfaces[n].ip_assignment = "static"
        /\ project.vms[i].network_interfaces[n].ip_address # None}

AddressAt(project, at) == project.vms[at[1]].network_interfaces[at[2]].ip_address

\* C2: when two interfaces on different VMs carry the same static address A,
\* validation gives is_valid = false and an IP-conflict error naming A; when no
\* two static addresses of the project are equal, it gives no IP-conflict error.
C2_StaticIpConflicts ==
    Validated =>
        LET project == projects[response.project_id]
            static == StaticAddresses(project)
        IN  /\ \A a, b \in static :
                  (a[1] # b[1] /\ AddressAt(project, a) = AddressAt(project, b))
                      => /\ ~response.result.is_valid
                         /\ \E e \in DOMAIN response.result.errors :
                               /\ response.result.errors[e].msg = "IP address conflict"
                               /\ response.result.errors[e].ip = AddressAt(project, a)
            /\ (\A a, b \in static :
                   a # b => AddressAt(project, a) # AddressAt(project, b))
                  => ~HasError(response.result, "IP address conflict")

\* C9: a request that constructs a private_network interface with a public
\* address is accepted only when it carries the override header itself, and the
\* body of an update_project that carries the header is not refused as invalid
\* (422), whatever the requests before it carried.
C9_FlagFromOwnRequest ==
    (/\ response.op \in {"create_vm", "update_vm", "add_network_interface",
                         "update_network_interface", "update_project"}
     /\ response.public_in_private)
        => /\ response.status \in {200, 201} => response.header
           /\ (response.op = "update_project" /\ response.header)
                  => response.status # 422

(***************************************************************************)
(* Claims on concurrent callers (SpecThreads)                              *)
(***************************************************************************)
\* C10: construction needs no coordination between callers: whenever a caller
\* has constructed a private_network interface with a public address, whatever
\* the other caller did in between, the interface was accepted if the caller's
\* own request carried the override and rejected if it did not.
C10_CallersIndependent ==
    \A t \in Callers :
        (pc[t] = "done" /\ IsPublicInPrivate(call[t].data))
            => (response[t].ok <=> call[t].header)

\* The requests that change what a project holds
ContentMutatingOps ==
    {"update_project", "delete_project", "create_vm", "update_vm", "delete_vm",
     "add_network_interface", "update_network_interface", "delete_network_interface",
     "add_plugin", "update_plugin", "remove_plugin",
     "add_provisioner", "remove_provisioner", "add_trigger", "remove_trigger"}

Content(project) ==
    [name |-> project.name, vms |-> project.vms,
     global_plugins |-> project.global_plugins,
     global_provisioners |-> project.global_provisioners]

\* C11: while a project is ready, a step leaves it stored with the content it
\* had, and a content-mutating request answered in that step is refused (its
\* status is an error status); only the deployment status of a ready project
\* can change.
C11_ReadyProjectLocked ==
    [][\A p \in DOMAIN projects :
          projects[p].deployment_status = "ready" =>
              /\ p \in DOMAIN projects'
              /\ Content(projects'[p]) = Content(projects[p])
              /\ response'.op \in ContentMutatingOps => response'.status >= 400]_vars

\* A ready project that holds a VM, an interface and a plugin has just had a
\* request to delete it refused
C11_Witness ==
    /\ "p1" \in DOMAIN projects
    /\ projects["p1"].deployment_status = "ready"
    /\ projects["p1"].global_plugins # <<>>
    /\ \E i \in DOMAIN projects["p1"].vms :
           projects["p1"].vms[i].network_interfaces # <<>>
    /\ response = [op |-> "delete_project", status |-> 500]

\* C12: a VM request with exactly one thing wrong is answered with the status
\* of that failure class: 404 for a missing project or VM, 409 for a
\* duplicate VM name, 400 for malformed VM data.
C12_FailureClassesDistinct ==
    response.op \in {"post_vm", "put_vm"} =>
        /\ response.classes = {"missing"} => response.status = 404
        /\ response.classes = {"duplicate"} => response.status = 409
        /\ response.classes = {"malformed"} => response.status = 400

\* The ids of a list that the store has, in the order of the list
Resolvable(ids, known) == SelectSeq(ids, LAMBDA x : x \in known)

\* C13: resolving the provisioners or triggers of a stored project answers 200
\* with the entries of the ids the store has, in the order of the project's
\* list; an id the store does not have is skipped and is no error.
C13_StaleReferenceSkipped ==
    /\ response.op = "get_project_provisioners" /\ response.project_id \in DOMAIN projects =>
           /\ response.status = 200
           /\ response.body = Resolvable(projects[response.project_id].global_provisioners,
                                         GlobalProvisionerIds)
    /\ response.op = "get_project_triggers" /\ response.project_id \in DOMAIN projects =>
           response.status = 200

\* The token that follows the word `key` in a rendered text
HasKey(text, key) == \E i \in DOMAIN text : text[i] = Word(key)
ValueAfter(text, key) == text[1 + CHOOSE i \in DOMAIN text : text[i] = Word(key)]

\* C14: the rendered interface is a config.vm.network declaration of the
\* interface's type; a forwarded port carries its guest port, host port and
\* protocol; a static private network carries its ip_address; a dhcp private
\* network carries the dhcp marker and no address, stored or not; a public
\* network carries a bridge clause exactly when a bridge is set, with its name.
C14_InterfaceRendering ==
    call.fn = "NetworkInterface.get_vagrant_config" =>
        LET ni == call.interface
            text == response.text
        IN  /\ text[1] = Word("config.vm.network") /\ text[2] = Str(ni.type)
            /\ ni.type = "forwarded_port" =>
                   /\ ni.guest_port # None => ValueAfter(text, "guest:") = Num(Val(ni.guest_port))
                   /\ ni.host_port # None => ValueAfter(text, "host:") = Num(Val(ni.host_port))
                   /\ ValueAfter(text, "protocol:") = Str(ni.protocol)
            /\ ni.type = "private_network" /\ ni.ip_assignment = "static"
                   /\ ni.ip_address # None =>
                   ValueAfter(text, "ip:") = StrIp(Val(ni.ip_address))
            /\ ni.type = "private_network" /\ ni.ip_assignment = "dhcp" =>
                   /\ ValueAfter(text, "type:") = Str("dhcp")
                   /\ ~HasKey(text, "ip:")
                   /\ \A i \in DOMAIN text : "str_ip" \notin DOMAIN text[i]
            /\ ni.type = "public_network" =>
                   /\ HasKey(text, "bridge:") <=> ni.bridge # None
                   /\ ni.bridge # None => ValueAfter(text, "bridge:") = StrText(Val(ni.bridge))

\* A dhcp private network that stores an address has been rendered
C14_Witness ==
    /\ call.fn = "NetworkInterface.get_vagrant_config"
    /\ call.interface.type = "private_network"
    /\ call.interface.ip_assignment = "dhcp"
    /\ call.interface.ip_address # None
    /\ HasKey(response.text, "type:")

\* Ruby's reading of a double-quoted literal from position i on: the position
\* of the first double-quote that no backslash escapes, 0 when there is none
RECURSIVE ClosingQuote(_, _)
ClosingQuote(source, i) ==
    IF i > Len(source) THEN 0
    ELSE IF source[i] = "\\" THEN ClosingQuote(source, i + 2)
    ELSE IF source[i] = "\"" THEN i
    ELSE ClosingQuote(source, i + 1)

\* The source text of the literal "content"
Quoted(content) == <<"\"">> \o content \o <<"\"">>

\* C15: the literal of the inline: clause of a rendered shell provisioner holds
\* no raw newline and is closed by its last character and by no earlier one, so
\* that the args: and privileged: clauses that follow are read as written.
C15_InlineScriptEscaped ==
    /\ call.fn = "Provisioner.get_vagrant_config"
    /\ call.provisioner.type = "shell"
    /\ HasKey(response.text, "inline:")
    => LET source == Quoted(ValueAfter(response.text, "inline:").str_text)
       IN  /\ \A i \in DOMAIN source : source[i] # "\n"
           /\ ClosingQuote(source, 2) = Len(source)

\* Ruby's reading of the content of a double-quoted literal: the text it
\* denotes, or None when a double-quote or an interpolation marker stands
\* unescaped in it or a backslash has nothing to escape. \\ is a backslash,
\* \" a double-quote and \# a hash sign.
RubyRead(content) ==
    LET \* the number of backslashes that stand directly before position i
        run(i) == (i - 1) - CHOOSE j \in 0..(i - 1) :
                                /\ j = 0 \/ content[j] # "\\"
                                /\ \A k \in (j + 1)..(i - 1) : content[k] = "\\"
        escaped(i) == run(i) % 2 = 1
        escapes(i) == content[i] = "\\" /\ ~escaped(i)
        well == \A i \in DOMAIN content :
                    /\ escapes(i) => i < Len(content) /\ content[i + 1] \in {"\\", "\"", "#"}
                    /\ content[i] = "\"" => escaped(i)
                    /\ content[i] = "#" /\ i < Len(content) /\ content[i + 1] = "{"
                           => escaped(i)
    IN  IF ~well THEN None
        ELSE Some(Join([i \in DOMAIN content |->
                           IF escapes(i) THEN <<>> ELSE <<content[i]>>],
                       1, Len(content)))

Count(text, c) == Cardinality({i \in DOMAIN text : text[i] = c})

\* C16: the escaped string, read as the content of a Ruby double-quoted
\* literal, has no unescaped double-quote and no unescaped #{ and denotes the
\* string that was escaped; it holds two backslashes for every backslash of
\* the string and one more for every double-quote and every #{ of it.
C16_EscapeRubyString ==
    call.fn = "_escape_ruby_string" =>
        /\ RubyRead(response.text) = Some(call.s)
        /\ Count(response.text, "\\") =
               2 * Count(call.s, "\\") + Count(call.s, "\"")
                   + Cardinality({i \in 1..(Len(call.s) - 1) :
                                     call.s[i] = "#" /\ call.s[i + 1] = "{"})

\* A string holding a backslash, a double-quote and #{ has been escaped
C16_Witness ==
    /\ call.fn = "_escape_ruby_string"
    /\ call.s = <<"\\", "\"", "#">>
    /\ response.text = <<"\\", "\\", "\\", "\"", "#">>

\* C17: the text of an accepted trigger holds exactly one command statement,
\* trigger.run for a local command and trigger.run_remote for a remote one; the
\* statement is a heredoc exactly when the command holds a newline or is longer
\* than 80 characters and an inline double-quoted literal denoting the command
\* otherwise; the trigger.on_error line and the closing end follow it directly.
C17_TriggerCommandForm ==
    call.fn = "GlobalTrigger.get_vagrant_config" =>
        LET cfg == call.trigger.trigger_config
            lines == response.text
            local == cfg.run # None /\ Val(cfg.run) # <<>>
            command == IF local THEN Val(cfg.run) ELSE Val(cfg.run_remote_inline)
            long == (\E j \in DOMAIN command : command[j] = "\n") \/ Len(command) > 80
            statements == {i \in DOMAIN lines :
                              lines[i].line \in {"trigger.run", "trigger.run_remote"}}
        IN  /\ Cardinality(statements) = 1
            /\ \A i \in statements :
                   /\ lines[i].line = IF local THEN "trigger.run" ELSE "trigger.run_remote"
                   /\ lines[i].form = IF long THEN "heredoc" ELSE "inline"
                   /\ long => lines[i + 1] = [line |-> "heredoc_body", text |-> command]
                   /\ ~long => RubyRead(lines[i].literal) = Some(command)
                   /\ Len(lines) = i + (IF long THEN 3 ELSE 0) + 2
            /\ lines[Len(lines) - 1] = [line |-> "trigger.on_error", symbol |-> cfg.on_error]
            /\ lines[Len(lines)] = [line |-> "end"]

\* A remote command of 81 characters on one line has been rendered as a heredoc
C17_Witness ==
    /\ call.fn = "GlobalTrigger.get_vagrant_config"
    /\ call.trigger.trigger_config.run = None
    /\ Len(Val(call.trigger.trigger_config.run_remote_inline)) = 81
    /\ \E i \in DOMAIN response.text :
           response.text[i] = [line |-> "trigger.run_remote", form |-> "heredoc"]

\* The literal that follows entry i of a rendered dict, whose entries take
\* width tokens each, the first at position first
LiteralOf(text, first, width, i) == text[first + width * (i - 1) + (width - 1)]

\* C18: a non-shell Provisioner config entry and a PluginConfiguration config
\* entry are rendered to the literal that SyncedFolder renders the same value
\* to as an option: true / false, the quoted string, the bracketed sequence of
\* quoted strings, the raw literal otherwise.
C18_SameLiteralRule ==
    /\ (call.fn = "Provisioner.get_vagrant_config" /\ call.provisioner.type # "shell") =>
           \A i \in DOMAIN call.provisioner.config :
               LiteralOf(response.text, 3, 2, i)
                   = synced_folder_option_literal(call.provisioner.config[i][2])
    /\ call.fn = "PluginConfiguration.get_vagrant_config" =>
           \A i \in DOMAIN call.plugin.config :
               LiteralOf(response.text, 2, 3, i)
                   = synced_folder_option_literal(call.plugin.config[i][2])
    /\ (call.fn = "SyncedFolder.get_vagrant_config" /\ ~call.folder.disabled) =>
           \A i \in DOMAIN call.folder.options :
               LiteralOf(response.text, 4, 2, i)
                   = synced_folder_option_literal(call.folder.options[i][2])

Renderings ==
    {"NetworkInterface.get_vagrant_config", "SyncedFolder.get_vagrant_config",
     "Provisioner.get_vagrant_config", "PluginConfiguration.get_vagrant_config",
     "GlobalProvisioner.get_vagrant_config", "GlobalTrigger.get_vagrant_config"}

\* The object a rendering call was made on, and its fields other than the
\* timestamps
Rendered(c) == c[CHOOSE k \in DOMAIN c \ {"fn"} : TRUE]
Untimed(self) == [k \in DOMAIN self \ {"created_at", "updated_at"} |-> self[k]]

NetmaskErrors(errors) == {i \in DOMAIN errors : errors[i].msg = "Invalid netmask"}

\* C20: validate_network_interface returns for every interface the constructor
\* accepts; a netmask that is dotted-decimal or "/0" to "/32", which is every
\* netmask the constructor accepts, gives no netmask entry in the errors.
C20_NetmaskValidationTotal ==
    call.fn = "validate_network_interface" =>
        /\ response.raised = Null
        /\ NetmaskErrors(response.errors) = {}

(***************************************************************************)
(* Claims on the VM a POST returns (SpecReturned)                          *)
(***************************************************************************)
\* C21: a VM created from a body without a hostname has its name as hostname,
\* in the VM the request returns and in the VM the project stores.
C21_HostnameDefaultsToName ==
    (/\ call.fn = "create_vm"
     /\ response.op = "create_vm" /\ response.status = 201
     /\ "hostname" \notin DOMAIN call.vm_data) =>
        LET project == projects[call.project_id]
            stored == project.vms[get_vm(project, call.vm_data.name)]
        IN  /\ Val(response.vm).hostname = Some(call.vm_data.name)
            /\ stored.hostname = Some(call.vm_data.name)

(***************************************************************************)
(* Claims on the synced folders of the stored VMs (SpecFolders)            *)
(***************************************************************************)
\* C22: the synced folders of every stored VM have pairwise distinct guest
\* paths.
C22_GuestPathsUnique ==
    \A p \in DOMAIN projects :
        \A v \in DOMAIN projects[p].vms :
            LET folders == projects[p].vms[v].synced_folders
            IN  \A i, j \in DOMAIN folders :
                    i # j => folders[i].guest_path # folders[j].guest_path

(***************************************************************************)
(* Claims on several projects (SpecProjects)                               *)
(***************************************************************************)
\* The name a request asks for is held by a stored project other than the one
\* the request is about
NameHeldByAnother(store, c) ==
    \E p \in DOMAIN store : p # c.project_id /\ store[p].name = strip(c.name)

\* C23: no two stored projects have the same name; a create_project or an
\* update_project that asks for a name another stored project holds is
\* rejected as a conflict (409 on creation, 400 on update, both with the
\* "already exists" message) and leaves the store as it was.
C23_ProjectNamesUnique ==
    /\ [](\A p, q \in DOMAIN projects : p # q => projects[p].name # projects[q].name)
    /\ [][(/\ call'.fn \in {"create_project", "update_project"}
           /\ validate_name(call'.name) = "ok"
           /\ call'.fn = "update_project" =>
                  /\ call'.project_id \in DOMAIN projects
                  /\ projects[call'.project_id].deployment_status = "draft"
           /\ NameHeldByAnother(projects, call'))
              => /\ response'.status = IF call'.fn = "create_project" THEN 409 ELSE 400
                 /\ projects' = projects]_vars

\* Two projects are stored and a request for the name of one of them has just
\* been refused
C23_Witness ==
    /\ Cardinality(DOMAIN projects) >= 2
    /\ call.fn \in {"create_project", "update_project"}
    /\ NameHeldByAnother(projects, call)
    /\ response.status \in {400, 409}

(***************************************************************************)
(* Claims on the updates of a stored interface (SpecInterfaceUpdate)       *)
(***************************************************************************)
\* The interfaces with the id of the request, in the VM of the request
Addressed(store, c) ==
    IF c.project_id \notin DOMAIN store THEN {}
    ELSE {ni \in Range(FlattenInterfaces(
                   SelectSeq(store[c.project_id].vms, LAMBDA vm : vm.name = c.vm_name))) :
             ni.id = c.interface_id}

\* The interface with the fields of the body laid over it
Overlaid(ni, body) == [k \in DOMAIN ni |-> IF k \in DOMAIN body THEN body[k] ELSE ni[k]]

\* C24: an update of a stored interface of a draft project whose body would
\* make an interface the constructor refuses is answered with a validation
\* failure (400 or 422) and the stored interface keeps its values; any other
\* update is answered 200 and changes exactly the fields the body names.
C24_InterfaceUpdateValidated ==
    [][(/\ call'.fn = "update_network_interface"
        /\ response'.op = "update_network_interface"
        /\ Addressed(projects, call') # {})
           => \A ni \in Addressed(projects, call') :
                  IF NetworkInterfaceInit(Overlaid(ni, call'.interface_data), ni.id,
                                          validation_config').ok
                  THEN /\ response'.status = 200
                       /\ Addressed(projects', call')
                              = {Overlaid(ni, call'.interface_data)}
                  ELSE /\ response'.status \in {400, 422}
                       /\ Addressed(projects', call') = {ni}]_vars

\* C25: a delete_project of a stored draft project answers 204, removes that
\* project and leaves every other stored project as it was; as long as an id is
\* not stored, which is so right after its deletion and for an id never
\* stored, get_project and delete_project answer 404 and change nothing; and
\* list_projects lists the stored projects and no other.
C25_DeletedForGood ==
    [][/\ (/\ call'.fn = "delete_project"
           /\ call'.project_id \in DOMAIN projects
           /\ projects[call'.project_id].deployment_status = "draft")
              => /\ response'.status = 204
                 /\ DOMAIN projects' = DOMAIN projects \ {call'.project_id}
                 /\ \A p \in DOMAIN projects' : projects'[p] = projects[p]
       /\ (/\ call'.fn \in {"delete_project", "get_project"}
           /\ call'.project_id \notin DOMAIN projects)
              => /\ response'.status = 404
                 /\ projects' = projects
       /\ call'.fn = "list_projects"
              => /\ {summary.id : summary \in response'.projects} = DOMAIN projects
                 /\ projects' = projects]_vars

\* A project has just been deleted while another one stays stored
C25_Witness ==
    /\ call.fn = "delete_project"
    /\ response.op = "delete_project" /\ response.status = 204
    /\ call.project_id \notin DOMAIN projects
    /\ projects # EmptyStore

\* C26: a PUT /projects/{project_id} that is answered 200 leaves every other
\* project as it was and changes, of the project it names, only name,
\* description, vms and global_plugins: the key it is stored under, its
\* version, its deployment_status and its global_provisioners are the ones it
\* had, whatever the body carries for them
C26_UpdateProjectFrame ==
    [][(/\ call'.fn = "update_project"
        /\ response'.op = "update_project"
        /\ response'.status = 200)
       => LET id == call'.project_id
          IN  /\ DOMAIN projects' = DOMAIN projects
              /\ \A p \in DOMAIN projects \ {id} : projects'[p] = projects[p]
              /\ projects'[id].version = projects[id].version
              /\ projects'[id].deployment_status = projects[id].deployment_status
              /\ projects'[id].global_provisioners = projects[id].global_provisioners
              /\ projects'[id] =
                     [projects[id] EXCEPT
                         !.name = projects'[id].name,
                         !.description = projects'[id].description,
                         !.vms = projects'[id].vms,
                         !.global_plugins = projects'[id].global_plugins]]_vars

\* An update was answered 200 whose body carried another version, deployment
\* status and list of global provisioners than the stored project holds
C26_Witness ==
    /\ call.fn = "update_project"
    /\ response.op = "update_project"
    /\ response.status = 200
    /\ {"version", "deployment_status", "global_provisioners"}
           \subseteq DOMAIN call.project_data
    /\ call.project_data.version # projects[call.project_id].version
    /\ call.project_data.deployment_status
           # projects[call.project_id].deployment_status
    /\ call.project_data.global_provisioners
           # projects[call.project_id].global_provisioners
    /\ projects[call.project_id].global_provisioners # <<>>

\* seq without its element at index i, the others in their order
WithoutIndex(before, after, i) ==
    /\ Len(after) = Len(before) - 1
    /\ \A j \in 1..(i - 1) : after[j] = before[j]
    /\ \A j \in (i + 1)..Len(before) : after[j - 1] = before[j]

\* C27: a DELETE of a VM by name, or of an interface by id, that finds it in a
\* draft project is answered 204 and stores the project without that one
\* element, every other VM (interface) unchanged and in its previous order,
\* and nothing else of the store changed; a DELETE naming a project, VM or
\* interface that is not stored is answered 404 and changes nothing
C27_RemovesExactlyOne ==
    [][/\ (call'.fn = "delete_vm" /\ response'.op = "delete_vm")
          => LET id == call'.project_id
                 vms == IF id \in DOMAIN projects THEN projects[id].vms ELSE <<>>
                 named == {i \in DOMAIN vms : vms[i].name = call'.vm_name}
             IN  IF named = {}
                 THEN response'.status = 404 /\ projects' = projects
                 ELSE projects[id].deployment_status = "draft"
                      => /\ response'.status = 204
                         /\ DOMAIN projects' = DOMAIN projects
                         /\ \E i \in named : WithoutIndex(vms, projects'[id].vms, i)
                         /\ projects' = [projects EXCEPT ![id].vms = projects'[id].vms]
       /\ (call'.fn = "delete_network_interface"
               /\ response'.op = "delete_network_interface")
          => LET id == call'.project_id
                 vms == IF id \in DOMAIN projects THEN projects[id].vms ELSE <<>>
                 v == FirstIndex(vms, "name", call'.vm_name)
                 nis == IF v = 0 THEN <<>> ELSE vms[v].network_interfaces
                 named == {n \in DOMAIN nis : nis[n].id = call'.interface_id}
             IN  IF named = {}
                 THEN response'.status = 404 /\ projects' = projects
                 ELSE projects[id].deployment_status = "draft"
                      => /\ response'.status = 204
                         /\ DOMAIN projects' = DOMAIN projects
                         /\ \E n \in named :
                                WithoutIndex(nis, projects'[id].vms[v].network_interfaces, n)
                         /\ projects' =
                                [projects EXCEPT ![id].vms[v].network_interfaces =
                                    projects'[id].vms[v].network_interfaces]]_vars

\* The middle one of the VMs web, db, api was removed, and then the middle one
\* of the three interfaces of web
C27_Witness ==
    /\ response.op = "delete_network_interface"
    /\ response.status = 204
    /\ "p1" \in DOMAIN projects
    /\ Len(projects["p1"].vms) = 2
    /\ projects["p1"].vms[1].name = Web
    /\ projects["p1"].vms[2].name = Api
    /\ Len(projects["p1"].vms[1].network_interfaces) = 2
    /\ projects["p1"].vms[1].network_interfaces[1].ip_address = Some(PrivateAddress)
    /\ projects["p1"].vms[1].network_interfaces[2].ip_address
           = Some(OtherPrivateAddress)

\* C28: a POST that attaches a provisioner id the provisioner store does not
\* hold is answered 404 and leaves the projects as they were
C28_AbsentProvisionerNotFound ==
    [][(/\ call'.fn = "add_provisioner_to_project"
        /\ response'.op = "add_provisioner"
        /\ call'.provisioner = None)
       => (response'.status = 404 /\ projects' = projects)]_vars

\* C29: no two global plugins of a stored project have the same name
C29_PluginNamesDistinct ==
    \A p \in DOMAIN projects :
        \A i, j \in DOMAIN projects[p].global_plugins :
            i # j => projects[p].global_plugins[i].name
                         # projects[p].global_plugins[j].name

\* C30: validate_vm reports no duplicate IP address for a stored VM: no two
\* of its interfaces have the same static ip_address
C30_NoDuplicateStaticAddress ==
    \A p \in DOMAIN projects :
        \A v \in DOMAIN projects[p].vms :
            \A e \in Range(validate_vm(projects[p].vms[v]).errors) :
                e.msg # "Duplicate IP address"

====
